---- MODULE Spec2Model ----
(***************************************************************************)
(* Model of the NachOS on-disk file system of this repository: the free    *)
(* sector bitmap, the four-level file header (filehdr.cc), the directory   *)
(* (directory.cc) and the file system calls (filesys.cc, filesys.h).       *)
(*                                                                         *)
(* The disk is modelled sector by sector.  A sector is a tuple of          *)
(* NUM_INT_IN_SECTOR 32-bit words, which is how every structure of the     *)
(* code reads and writes it (int cache[SectorSize / sizeof(int)]).  The    *)
(* geometry is scaled down: a sector has 4 words instead of 32, a          *)
(* directory entry fills one sector, a directory has 2 entries and the     *)
(* disk has 24 sectors.  All derived quantities (pointers per header,      *)
(* level capacities, file sizes of the two system files) are computed from *)
(* these by the formulas of the source.                                    *)
(***************************************************************************)
EXTENDS Integers, Sequences, FiniteSets, TLC

\* ------------------------------------------------------------------------
\* Geometry (disk.h, filehdr.h, directory.h)
\* ------------------------------------------------------------------------
\* Scaled down from the source's values: SectorSize 128, NumSectors 1024,
\* NumDirEntries 64, sizeof(DirectoryEntry) 24.
SectorSize == 16
NumSectors == 24
BitsInByte == 8
SizeofInt == 4
NumDirEntries == 2
SizeofDirectoryEntry == 16

NUM_INT_IN_SECTOR == SectorSize \div SizeofInt
NUM_FILE_HEADER_POINTER == NUM_INT_IN_SECTOR - 2
NUM_INDIRECT_POINTER == NUM_INT_IN_SECTOR - 1

LEVEL_1_SECTOR_NUM == NUM_FILE_HEADER_POINTER
LEVEL_2_SECTOR_NUM == NUM_FILE_HEADER_POINTER * NUM_INDIRECT_POINTER
LEVEL_3_SECTOR_NUM == NUM_FILE_HEADER_POINTER * NUM_INDIRECT_POINTER * NUM_INDIRECT_POINTER
LEVEL_4_SECTOR_NUM ==
    NUM_FILE_HEADER_POINTER * NUM_INDIRECT_POINTER * NUM_INDIRECT_POINTER * NUM_INDIRECT_POINTER

LEVEL_1_SIZE == SectorSize * LEVEL_1_SECTOR_NUM
LEVEL_2_SIZE == SectorSize * LEVEL_2_SECTOR_NUM
LEVEL_3_SIZE == SectorSize * LEVEL_3_SECTOR_NUM
LEVEL_4_SIZE == SectorSize * LEVEL_4_SECTOR_NUM

\* SECTOR_NUM_IN_LEVEL[k] of the source is SECTOR_NUM_IN_LEVEL[k + 1] here.
SECTOR_NUM_IN_LEVEL ==
    <<1, LEVEL_1_SECTOR_NUM, LEVEL_2_SECTOR_NUM, LEVEL_3_SECTOR_NUM, LEVEL_4_SECTOR_NUM>>

FreeMapSector == 0
DirectorySector == 1
FreeMapFileSize == NumSectors \div BitsInByte
DirectoryFileSize == SizeofDirectoryEntry * NumDirEntries
DIR_SIZE == NumDirEntries * SizeofDirectoryEntry

FILE_TYPE == 1
DIR_TYPE == 2

Sectors == 0 .. (NumSectors - 1)

divRoundUp(n, s) == (n \div s) + (IF n % s > 0 THEN 1 ELSE 0)
min(x, y) == IF x < y THEN x ELSE y

\* A sector of zero bytes, and the words of a structure's cache after
\* memset(cache, -1, sizeof(cache)).
ZeroSector == [i \in 1 .. NUM_INT_IN_SECTOR |-> 0]
MinusOnes == [i \in 1 .. NUM_INT_IN_SECTOR |-> -1]

\* ------------------------------------------------------------------------
\* Bitmap (bitmap.cc / pbitmap.cc): the in-memory map is the set of marked
\* sectors.
\* ------------------------------------------------------------------------
Mark(bm, which) == bm \cup {which}
Clear(bm, which) == bm \ {which}
Test(bm, which) == which \in bm
NumClear(bm) == Cardinality(Sectors \ bm)
FindFree(bm) ==
    IF Sectors \ bm = {} THEN -1
    ELSE CHOOSE s \in Sectors \ bm : \A t \in Sectors \ bm : s <= t

Pow2(k) == 2 ^ k

RECURSIVE EncodeBits(_, _)
EncodeBits(bm, k) ==
    IF k = NumSectors THEN 0
    ELSE (IF k \in bm THEN Pow2(k) ELSE 0) + EncodeBits(bm, k + 1)

\* The bits of the map the bitmap file can hold: FreeMapFileSize bytes.
MapFileBits == FreeMapFileSize * BitsInByte
DecodeBits(w) == {k \in 0 .. (MapFileBits - 1) : (w \div Pow2(k)) % 2 = 1}

\* FindAndSet that finds and does not set: the same sector k times.
TakeFree_NoSet(bm, k) == [i \in 1 .. k |-> FindFree(bm)]

\* The k lowest free sectors, in the order successive FindAndSet calls
\* return them.
RECURSIVE TakeFree(_, _)
TakeFree(bm, k) ==
    LET Go(s) == <<s>> \o TakeFree(Mark(bm, s), k - 1)
    IN  IF k = 0 THEN <<>> ELSE Go(FindFree(bm))

SeqRange(q) == {q[i] : i \in DOMAIN q}

\* An array of "len" ints whose first entries are q; the rest is what a
\* value-initialised object holds (0).
PadTo(q, len) == [i \in 1 .. len |-> IF i <= Len(q) THEN q[i] ELSE 0]

\* ------------------------------------------------------------------------
\* Pointer tree (filehdr.cc).  A node in memory:
\*   level 1, DirectPointer:          [dataSector]
\*   level 2, SingleIndirectPointer:  [numPointer, pointerSectors]
\*   level 3, DoubleIndirectPointer:  [numPointer, pointerSectors, table]
\*   level 4, TripleIndirectPointer:  [numPointer, pointerSectors, table]
\* Allocate yields [st, bm, node] with st = "ok" (returned true), "false"
\* (returned false) or "assert" (an ASSERT failed and the process aborted).
\* (Local operators "Go" only name a value that is used more than once.)
\* ------------------------------------------------------------------------
NoNode == [dataSector |-> 0]

DirectPointer_Allocate(bm, numSectors) ==
    LET Go(s) == [st |-> "ok", bm |-> Mark(bm, s), node |-> [dataSector |-> s]]
    IN  IF numSectors # 1 THEN [st |-> "assert", bm |-> bm, node |-> NoNode]
        ELSE IF NumClear(bm) < numSectors THEN [st |-> "false", bm |-> bm, node |-> NoNode]
        ELSE Go(FindFree(bm))

SingleIndirectPointer_Allocate(bm, numSectors) ==
    LET Go(secs) ==
            [st |-> "ok", bm |-> bm \cup SeqRange(secs),
             node |-> [numPointer |-> numSectors,
                       pointerSectors |-> PadTo(secs, NUM_INDIRECT_POINTER)]]
    IN  IF numSectors > LEVEL_1_SECTOR_NUM THEN [st |-> "assert", bm |-> bm, node |-> NoNode]
        ELSE IF NumClear(bm) < numSectors THEN [st |-> "false", bm |-> bm, node |-> NoNode]
        ELSE Go(TakeFree(bm, numSectors))

RECURSIVE Node_Allocate(_, _, _)
RECURSIVE AllocateChildren(_, _, _, _, _)

\* The loop "for (i = 0; i < numPointer; i++) ASSERT(table[i].Allocate(...))"
\* of a node whose children are at childLevel; left = numPointer - i.
AllocateChildren(childLevel, bm, remainSector, left, acc) ==
    LET Go(allocateSectors, r) ==
            IF r.st # "ok" THEN [st |-> "assert", bm |-> r.bm, table |-> acc]
            ELSE AllocateChildren(childLevel, r.bm, remainSector - allocateSectors,
                                  left - 1, Append(acc, r.node))
    IN  IF left = 0
        THEN [st |-> IF remainSector = 0 THEN "ok" ELSE "assert", bm |-> bm, table |-> acc]
        ELSE IF remainSector <= 0 THEN [st |-> "assert", bm |-> bm, table |-> acc]
        ELSE Go(min(remainSector, SECTOR_NUM_IN_LEVEL[childLevel]),
                Node_Allocate(childLevel, bm,
                              min(remainSector, SECTOR_NUM_IN_LEVEL[childLevel])))

\* DoubleIndirectPointer::Allocate and TripleIndirectPointer::Allocate have
\* the same body: level 3 with LEVEL_2_SECTOR_NUM / LEVEL_1_SECTOR_NUM,
\* level 4 with LEVEL_3_SECTOR_NUM / LEVEL_2_SECTOR_NUM.
IndirectPointer_Allocate(level, bm, numSectors) ==
    LET numPointer == divRoundUp(numSectors, SECTOR_NUM_IN_LEVEL[level - 1])
        Done(secs, c) ==
            [st |-> c.st, bm |-> c.bm,
             node |-> [numPointer |-> numPointer,
                       pointerSectors |-> PadTo(secs, NUM_INDIRECT_POINTER),
                       table |-> c.table]]
        Go(secs) ==
            Done(secs, AllocateChildren(level - 1, bm \cup SeqRange(secs), numSectors,
                                        numPointer, <<>>))
    IN  IF numSectors > SECTOR_NUM_IN_LEVEL[level]
        THEN [st |-> "assert", bm |-> bm, node |-> NoNode]
        ELSE IF NumClear(bm) < numPointer THEN [st |-> "false", bm |-> bm, node |-> NoNode]
        ELSE Go(TakeFree(bm, numPointer))

DoubleIndirectPointer_Allocate(bm, numSectors) == IndirectPointer_Allocate(3, bm, numSectors)
TripleIndirectPointer_Allocate(bm, numSectors) == IndirectPointer_Allocate(4, bm, numSectors)

\* GetNewPointerByLevel(level)->Allocate(...)
Node_Allocate(level, bm, numSectors) ==
    CASE level = 1 -> DirectPointer_Allocate(bm, numSectors)
      [] level = 2 -> SingleIndirectPointer_Allocate(bm, numSectors)
      [] level = 3 -> DoubleIndirectPointer_Allocate(bm, numSectors)
      [] OTHER -> TripleIndirectPointer_Allocate(bm, numSectors)

\* The level FileHeader::Allocate chooses for fileSize; 0 when it returns
\* false because no level can hold the file.  The comparison is unsigned
\* (the LEVEL_k_SIZE macros contain sizeof), so a negative count is above
\* every level.
LevelOf(fileSize) ==
    IF fileSize < 0 THEN 0
    ELSE IF fileSize <= LEVEL_1_SIZE THEN 1
    ELSE IF fileSize <= LEVEL_2_SIZE THEN 2
    ELSE IF fileSize <= LEVEL_3_SIZE THEN 3
    ELSE IF fileSize <= LEVEL_4_SIZE THEN 4
    ELSE 0

\* A re-derivation that compares with "<" where the source has "<=".
FetchFrom_Level_Strict(numBytes) ==
    IF numBytes < 0 THEN 0
    ELSE IF numBytes < LEVEL_1_SIZE THEN 1
    ELSE IF numBytes < LEVEL_2_SIZE THEN 2
    ELSE IF numBytes < LEVEL_3_SIZE THEN 3
    ELSE IF numBytes < LEVEL_4_SIZE THEN 4
    ELSE 0

\* The level FileHeader::FetchFrom re-derives from the numBytes it read; 0
\* when decideLevel is false and ASSERT(decideLevel) stops the process.
FetchFrom_Level(numBytes) ==
    IF numBytes < 0 THEN 0
    ELSE IF numBytes <= LEVEL_1_SIZE THEN 1
    ELSE IF numBytes <= LEVEL_2_SIZE THEN 2
    ELSE IF numBytes <= LEVEL_3_SIZE THEN 3
    ELSE IF numBytes <= LEVEL_4_SIZE THEN 4
    ELSE 0

NoHeader == [numBytes |-> 0, numPointer |-> 0, level |-> 1,
             pointerSectors |-> PadTo(<<>>, NUM_FILE_HEADER_POINTER), table |-> <<>>]

\* FileHeader::Allocate: [st, bm, hdr].  numBytes, level and numPointer are
\* assigned before the first check that can fail, so a header that was not
\* built holds them too (level 0: no level was assigned).
FileHeader_Allocate(bm, fileSize) ==
    LET numSectors == divRoundUp(fileSize, SectorSize)
        level == LevelOf(fileSize)
        numPointer == divRoundUp(numSectors, SECTOR_NUM_IN_LEVEL[level])
        Started == [NoHeader EXCEPT !.numBytes = fileSize, !.level = level,
                                    !.numPointer = numPointer]
        Done(secs, c) ==
            [st |-> c.st, bm |-> c.bm,
             hdr |-> [numBytes |-> fileSize, numPointer |-> numPointer, level |-> level,
                      pointerSectors |-> PadTo(secs, NUM_FILE_HEADER_POINTER),
                      table |-> c.table]]
        Go(secs) ==
            Done(secs, AllocateChildren(level, bm \cup SeqRange(secs), numSectors,
                                        numPointer, <<>>))
    IN  IF level = 0
        THEN [st |-> "false", bm |-> bm,
              hdr |-> [NoHeader EXCEPT !.numBytes = fileSize, !.level = 0]]
        ELSE IF numPointer > NUM_FILE_HEADER_POINTER
        THEN [st |-> "assert", bm |-> bm, hdr |-> Started]
        ELSE IF NumClear(bm) < numPointer THEN [st |-> "false", bm |-> bm, hdr |-> Started]
        ELSE Go(TakeFree(bm, numPointer))

\* ------------------------------------------------------------------------
\* WriteBack: the disk after the node (header) is written to its sector.
\* ------------------------------------------------------------------------
\* cache after memset(cache, -1, ...) and the stores cache[k] = q[k].
CacheOf(q) == [i \in 1 .. NUM_INT_IN_SECTOR |-> IF i <= Len(q) THEN q[i] ELSE -1]

WriteSector(d, sectorNumber, data) == [d EXCEPT ![sectorNumber] = data]

DirectPointer_WriteBack(d, node, sectorNumber) ==
    WriteSector(d, sectorNumber, CacheOf(<<node.dataSector>>))

SingleIndirectPointer_WriteBack(d, node, sectorNumber) ==
    WriteSector(d, sectorNumber, CacheOf(<<node.numPointer>> \o node.pointerSectors))

RECURSIVE Node_WriteBack(_, _, _, _)
RECURSIVE WriteBackChildren(_, _, _, _, _)

\* "for (i = 0; i < numPointer; i++) table[i].WriteBack(pointerSectors[i])"
WriteBackChildren(childLevel, d, node, i, numPointer) ==
    IF i > numPointer THEN d
    ELSE WriteBackChildren(childLevel,
                           Node_WriteBack(childLevel, d, node.table[i], node.pointerSectors[i]),
                           node, i + 1, numPointer)

\* DoubleIndirectPointer::WriteBack and TripleIndirectPointer::WriteBack:
\* the children first, then the node's own sector.
IndirectPointer_WriteBack(level, d, node, sectorNumber) ==
    WriteSector(WriteBackChildren(level - 1, d, node, 1, node.numPointer), sectorNumber,
                CacheOf(<<node.numPointer>> \o node.pointerSectors))

Node_WriteBack(level, d, node, sectorNumber) ==
    CASE level = 1 -> DirectPointer_WriteBack(d, node, sectorNumber)
      [] level = 2 -> SingleIndirectPointer_WriteBack(d, node, sectorNumber)
      [] OTHER -> IndirectPointer_WriteBack(level, d, node, sectorNumber)

FileHeader_WriteBack(d, hdr, sector) ==
    WriteSector(WriteBackChildren(hdr.level, d, hdr, 1, hdr.numPointer), sector,
                CacheOf(<<hdr.numBytes, hdr.numPointer>> \o hdr.pointerSectors))

\* ------------------------------------------------------------------------
\* FetchFrom: [ok, node]; ok = FALSE when the fetch stops the process (an
\* ASSERT of the structure or of the disk's sector range check fails, or a
\* count read from the sector runs past the node's arrays).
\* ------------------------------------------------------------------------
Words(d, sectorNumber, from, n) == [i \in 1 .. n |-> d[sectorNumber][from + i - 1]]

DirectPointer_FetchFrom(d, sectorNumber) ==
    IF sectorNumber \notin Sectors THEN [ok |-> FALSE, node |-> NoNode]
    ELSE [ok |-> TRUE, node |-> [dataSector |-> d[sectorNumber][1]]]

\* A fetch that reads pointerSectors[i] from cache[i], not cache[1 + i].
SingleIndirectPointer_FetchFrom_OffByOne(d, sectorNumber) ==
    IF sectorNumber \notin Sectors THEN [ok |-> FALSE, node |-> NoNode]
    ELSE [ok |-> TRUE,
          node |-> [numPointer |-> d[sectorNumber][1],
                    pointerSectors |-> Words(d, sectorNumber, 1, NUM_INDIRECT_POINTER)]]

SingleIndirectPointer_FetchFrom(d, sectorNumber) ==
    IF sectorNumber \notin Sectors THEN [ok |-> FALSE, node |-> NoNode]
    ELSE [ok |-> TRUE,
          node |-> [numPointer |-> d[sectorNumber][1],
                    pointerSectors |-> Words(d, sectorNumber, 2, NUM_INDIRECT_POINTER)]]

RECURSIVE Node_FetchFrom(_, _, _)
RECURSIVE FetchChildren(_, _, _, _, _, _)

\* "for (i = 0; i < numPointer; i++) { ASSERT(pointerSectors[i] >= 0);
\*  table[i].FetchFrom(pointerSectors[i]); }" over an array of maxPointer.
FetchChildren(childLevel, d, pointerSectors, i, numPointer, acc) ==
    IF i > numPointer THEN [ok |-> TRUE, table |-> acc]
    ELSE IF i > Len(pointerSectors) \/ pointerSectors[i] < 0 THEN [ok |-> FALSE, table |-> acc]
    ELSE LET Go(r) ==
                 IF ~r.ok THEN [ok |-> FALSE, table |-> acc]
                 ELSE FetchChildren(childLevel, d, pointerSectors, i + 1, numPointer,
                                    Append(acc, r.node))
         IN  Go(Node_FetchFrom(childLevel, d, pointerSectors[i]))

IndirectPointer_FetchFrom(level, d, sectorNumber) ==
    IF sectorNumber \notin Sectors THEN [ok |-> FALSE, node |-> NoNode]
    ELSE LET Done(ptrs, c) ==
                 [ok |-> c.ok,
                  node |-> [numPointer |-> d[sectorNumber][1], pointerSectors |-> ptrs,
                            table |-> c.table]]
             Go(ptrs) ==
                 Done(ptrs, FetchChildren(level - 1, d, ptrs, 1, d[sectorNumber][1], <<>>))
         IN  Go(Words(d, sectorNumber, 2, NUM_INDIRECT_POINTER))

Node_FetchFrom(level, d, sectorNumber) ==
    CASE level = 1 -> DirectPointer_FetchFrom(d, sectorNumber)
      [] level = 2 -> SingleIndirectPointer_FetchFrom(d, sectorNumber)
      [] OTHER -> IndirectPointer_FetchFrom(level, d, sectorNumber)

\* FileHeader::FetchFrom: [ok, hdr]; the level is re-derived from numBytes.
FileHeader_FetchFrom(d, sector) ==
    IF sector \notin Sectors THEN [ok |-> FALSE, hdr |-> NoHeader]
    ELSE LET numBytes == d[sector][1]
             numPointer == d[sector][2]
             ptrs == Words(d, sector, 3, NUM_FILE_HEADER_POINTER)
             level == FetchFrom_Level(numBytes)
             Go(c) ==
                 [ok |-> c.ok,
                  hdr |-> [numBytes |-> numBytes, numPointer |-> numPointer,
                           level |-> level, pointerSectors |-> ptrs, table |-> c.table]]
         IN  IF level = 0 THEN [ok |-> FALSE, hdr |-> NoHeader]
             ELSE Go(FetchChildren(level, d, ptrs, 1, numPointer, <<>>))

\* ------------------------------------------------------------------------
\* Deallocate: [st, bm]; st = "assert" when an "ought to be marked" ASSERT
\* (or the bitmap's range check) fails.
\* ------------------------------------------------------------------------
ClearMarked(bm, which) ==
    IF which \in Sectors /\ Test(bm, which) THEN [st |-> "ok", bm |-> Clear(bm, which)]
    ELSE [st |-> "assert", bm |-> bm]

DirectPointer_Deallocate(bm, node) == ClearMarked(bm, node.dataSector)

RECURSIVE ClearAll(_, _, _, _)
ClearAll(bm, pointerSectors, i, numPointer) ==
    IF i > numPointer THEN [st |-> "ok", bm |-> bm]
    ELSE IF i > Len(pointerSectors) THEN [st |-> "assert", bm |-> bm]
    ELSE LET Go(r) ==
                 IF r.st # "ok" THEN r ELSE ClearAll(r.bm, pointerSectors, i + 1, numPointer)
         IN  Go(ClearMarked(bm, pointerSectors[i]))

SingleIndirectPointer_Deallocate(bm, node) ==
    ClearAll(bm, node.pointerSectors, 1, node.numPointer)

RECURSIVE Node_Deallocate(_, _, _)
RECURSIVE DeallocateChildren(_, _, _, _)

\* "for (i = 0; i < numPointer; i++) table[i].Deallocate(freeMap);"
DeallocateChildren(childLevel, bm, table, i) ==
    IF i > Len(table) THEN [st |-> "ok", bm |-> bm]
    ELSE LET Go(r) ==
                 IF r.st # "ok" THEN r ELSE DeallocateChildren(childLevel, r.bm, table, i + 1)
         IN  Go(Node_Deallocate(childLevel, bm, table[i]))

DoubleIndirectPointer_Deallocate(bm, node) == DeallocateChildren(2, bm, node.table, 1)

TripleIndirectPointer_Deallocate(bm, node) == DeallocateChildren(3, bm, node.table, 1)

Node_Deallocate(level, bm, node) ==
    CASE level = 1 -> DirectPointer_Deallocate(bm, node)
      [] level = 2 -> SingleIndirectPointer_Deallocate(bm, node)
      [] level = 3 -> DoubleIndirectPointer_Deallocate(bm, node)
      [] OTHER -> TripleIndirectPointer_Deallocate(bm, node)

\* FileHeader::Deallocate: for every non-null table[i], the child, then the
\* sector of the child.
RECURSIVE FileHeader_DeallocateFrom(_, _, _)
FileHeader_DeallocateFrom(bm, hdr, i) ==
    IF i > Len(hdr.table) THEN [st |-> "ok", bm |-> bm]
    ELSE LET Sector(q) ==
                 IF q.st # "ok" THEN q ELSE FileHeader_DeallocateFrom(q.bm, hdr, i + 1)
             Go(r) ==
                 IF r.st # "ok" THEN r ELSE Sector(ClearMarked(r.bm, hdr.pointerSectors[i]))
         IN  Go(Node_Deallocate(hdr.level, bm, hdr.table[i]))

FileHeader_Deallocate(bm, hdr) == FileHeader_DeallocateFrom(bm, hdr, 1)

\* ------------------------------------------------------------------------
\* ByteToSector.  -1 stands for a failed ASSERT.  SIZE_IN_LEVEL is declared
\* in a header that is not part of the sources; it is the byte capacity of
\* one pointer of each level: capacity(1) = S, capacity(k) = I * capacity(k-1).
\* SIZE_IN_LEVEL[k] of the source is SIZE_IN_LEVEL[k + 1] here.
\* ------------------------------------------------------------------------
SIZE_IN_LEVEL ==
    <<SectorSize, SectorSize * NUM_INDIRECT_POINTER,
      SectorSize * NUM_INDIRECT_POINTER * NUM_INDIRECT_POINTER,
      SectorSize * NUM_INDIRECT_POINTER * NUM_INDIRECT_POINTER * NUM_INDIRECT_POINTER>>

DirectPointer_ByteToSector(node, offset) ==
    IF offset > SectorSize THEN -1 ELSE node.dataSector

SingleIndirectPointer_ByteToSector(node, offset) ==
    LET pointerIndex == offset \div SIZE_IN_LEVEL[1]
    IN  IF pointerIndex >= NUM_INDIRECT_POINTER \/ node.pointerSectors[pointerIndex + 1] < 0
        THEN -1
        ELSE node.pointerSectors[pointerIndex + 1]

RECURSIVE Node_ByteToSector(_, _, _)

\* A child slot beyond numPointer is a value-initialised object.
ZeroNode(level) ==
    CASE level = 1 -> [dataSector |-> 0]
      [] level = 2 -> [numPointer |-> 0, pointerSectors |-> PadTo(<<>>, NUM_INDIRECT_POINTER)]
      [] OTHER -> [numPointer |-> 0, pointerSectors |-> PadTo(<<>>, NUM_INDIRECT_POINTER),
                   table |-> <<>>]

ChildAt(level, node, pointerIndex) ==
    IF pointerIndex + 1 <= Len(node.table) THEN node.table[pointerIndex + 1]
    ELSE ZeroNode(level - 1)

\* DoubleIndirectPointer::ByteToSector (level 3) and
\* TripleIndirectPointer::ByteToSector (level 4).
IndirectPointer_ByteToSector(level, node, offset) ==
    LET pointerIndex == offset \div SIZE_IN_LEVEL[level - 1]
        newOffset == offset % SIZE_IN_LEVEL[level - 1]
    IN  IF pointerIndex >= NUM_INDIRECT_POINTER \/ node.pointerSectors[pointerIndex + 1] < 0
        THEN -1
        ELSE Node_ByteToSector(level - 1, ChildAt(level, node, pointerIndex), newOffset)

Node_ByteToSector(level, node, offset) ==
    CASE level = 1 -> DirectPointer_ByteToSector(node, offset)
      [] level = 2 -> SingleIndirectPointer_ByteToSector(node, offset)
      [] OTHER -> IndirectPointer_ByteToSector(level, node, offset)

FileHeader_ByteToSector(hdr, offset) ==
    LET pointerIndex == offset \div SIZE_IN_LEVEL[hdr.level]
        newOffset == offset % SIZE_IN_LEVEL[hdr.level]
    IN  IF pointerIndex >= NUM_FILE_HEADER_POINTER \/ pointerIndex + 1 > Len(hdr.table)
        THEN -1
        ELSE Node_ByteToSector(hdr.level, hdr.table[pointerIndex + 1], newOffset)

FileHeader_FileLength(hdr) == hdr.numBytes

\* What an int that was never assigned may hold.
Garbage == {-1, 8}

\* FileHeader::ByteToSector of the direct-pointer-only implementation: the
\* set of [st, sector] the call can end with.  A slot of table[] at or
\* beyond numPointer was never assigned: it may be null (the ASSERT fails),
\* or hold anything (the call faults, or returns what it finds there).
FileHeader_ByteToSector_Direct(hdr, offset) ==
    LET pointerIndex == divRoundUp(offset, SECTOR_NUM_IN_LEVEL[hdr.level] * SectorSize)
        newOffset == (offset % SECTOR_NUM_IN_LEVEL[hdr.level]) * SectorSize
        Done(sector) ==
            [st |-> IF sector = -1 THEN "abort" ELSE "ok", sector |-> sector]
    IN  IF pointerIndex >= NUM_FILE_HEADER_POINTER
        THEN {[st |-> "abort", sector |-> -1]}
        ELSE IF pointerIndex + 1 > Len(hdr.table)
        THEN {[st |-> "abort", sector |-> -1], [st |-> "smashed", sector |-> -1]}
             \cup {[st |-> "ok", sector |-> s] : s \in Garbage}
        ELSE {Done(DirectPointer_ByteToSector(hdr.table[pointerIndex + 1], newOffset))}

\* ------------------------------------------------------------------------
\* OpenFile (openfile.cc): a header fetched from the file's sector and a
\* seek position.
\* ------------------------------------------------------------------------
OpenFile_New(d, sector) ==
    LET Go(f) == [ok |-> f.ok, file |-> [sector |-> sector, hdr |-> f.hdr, seekPosition |-> 0]]
    IN  Go(FileHeader_FetchFrom(d, sector))

\* Number of bytes ReadAt / WriteAt transfer: clipped to the file length.
ClippedBytes(hdr, numBytes, position) ==
    LET fileLength == FileHeader_FileLength(hdr)
    IN  IF numBytes <= 0 \/ position >= fileLength THEN 0
        ELSE IF position + numBytes > fileLength THEN fileLength - position
        ELSE numBytes

\* The disk sector holding sector number k (from 0) of the file, or -1.
FileSector(hdr, k) ==
    LET Go(s) == IF s \in Sectors THEN s ELSE -1
    IN  Go(FileHeader_ByteToSector(hdr, k * SectorSize))

\* ------------------------------------------------------------------------
\* Persistent bitmap (pbitmap.cc) on the bitmap file.
\* ------------------------------------------------------------------------
FormatMapAllocate == FileHeader_Allocate({FreeMapSector, DirectorySector}, FreeMapFileSize)
FormatDirAllocate == FileHeader_Allocate(FormatMapAllocate.bm, DirectoryFileSize)

\* freeMapFile: opened at mount on sector 0 and kept open; its header is
\* the one the format wrote.
freeMapFile == [sector |-> FreeMapSector, hdr |-> FormatMapAllocate.hdr, seekPosition |-> 0]

MapDataSector == FileSector(freeMapFile.hdr, 0)

\* new PersistentBitmap(freeMapFile, NumSectors): all bits clear, then the
\* bytes of the file.
PersistentBitmap_FetchFrom(d) == DecodeBits(d[MapDataSector][1])

\* freeMap->WriteBack(freeMapFile): the first FreeMapFileSize bytes of the
\* map; the remaining bytes of the sector keep their contents.
PersistentBitmap_WriteBack(d, bm) ==
    LET Go(s) ==
            [d EXCEPT ![s][1] = (d[s][1] - (d[s][1] % Pow2(MapFileBits))) + EncodeBits(bm, 0)]
    IN  Go(MapDataSector)

\* ------------------------------------------------------------------------
\* Directory (directory.cc).  An entry is the words <<inUse, fileType,
\* sector, name>>; it fills one sector of the directory file.  A name is
\* the number whose decimal digits are its characters; 0 is the empty
\* string.
\* ------------------------------------------------------------------------
InUse(e) == e[1] % 256 # 0
\* inUse is the first byte of the entry; the store leaves the other bytes of
\* its word alone.
SetInUse(e, b) == [e EXCEPT ![1] = (e[1] - (e[1] % 256)) + (IF b THEN 1 ELSE 0)]

\* Directory::Directory: inUse = FALSE in every entry.
Directory_New == [i \in 1 .. NumDirEntries |-> ZeroSector]

\* Entry i (from 1) lies within the bytes ReadAt / WriteAt transfer.
Covered(file, i) ==
    i * SizeofDirectoryEntry <=
        ClippedBytes(file.hdr, NumDirEntries * SizeofDirectoryEntry, 0)

\* Directory::FetchFrom on a directory object holding "tbl": [ok, tbl].
Directory_FetchFrom(d, file, tbl) ==
    IF \E i \in 1 .. NumDirEntries : Covered(file, i) /\ FileSector(file.hdr, i - 1) = -1
    THEN [ok |-> FALSE, tbl |-> tbl]
    ELSE [ok |-> TRUE,
          tbl |-> [i \in 1 .. NumDirEntries |->
                     IF Covered(file, i) THEN d[FileSector(file.hdr, i - 1)] ELSE tbl[i]]]

\* Directory::WriteBack: the disk after the covered entries are written,
\* in increasing order.
RECURSIVE Directory_WriteFrom(_, _, _, _)
Directory_WriteFrom(d, file, tbl, i) ==
    IF i > NumDirEntries THEN d
    ELSE IF Covered(file, i) /\ FileSector(file.hdr, i - 1) # -1
    THEN Directory_WriteFrom(WriteSector(d, FileSector(file.hdr, i - 1), tbl[i]), file, tbl, i + 1)
    ELSE Directory_WriteFrom(d, file, tbl, i + 1)

Directory_WriteBack(d, file, tbl) == Directory_WriteFrom(d, file, tbl, 1)

Directory_FindIndex(tbl, name) ==
    IF \E i \in 1 .. NumDirEntries : InUse(tbl[i]) /\ tbl[i][4] = name
    THEN (CHOOSE i \in 1 .. NumDirEntries :
             /\ InUse(tbl[i]) /\ tbl[i][4] = name
             /\ \A j \in 1 .. (i - 1) : ~(InUse(tbl[j]) /\ tbl[j][4] = name)) - 1
    ELSE -1

Directory_Find(tbl, name) ==
    LET i == Directory_FindIndex(tbl, name)
    IN  IF i # -1 THEN tbl[i + 1][3] ELSE -1

Directory_IsDirectory(tbl, name) ==
    LET index == Directory_FindIndex(tbl, name)
    IN  IF index # -1 THEN tbl[index + 1][2] = DIR_TYPE ELSE FALSE

\* An Add without the FindIndex check.
Directory_Add_NoFind(tbl, name, newSector, type) ==
    IF \A i \in 1 .. NumDirEntries : InUse(tbl[i]) THEN [ok |-> FALSE, tbl |-> tbl]
    ELSE LET i == CHOOSE k \in 1 .. NumDirEntries :
                      ~InUse(tbl[k]) /\ \A j \in 1 .. (k - 1) : InUse(tbl[j])
         IN  [ok |-> TRUE, tbl |-> [tbl EXCEPT ![i] = <<SetInUse(tbl[i], TRUE)[1], type, newSector, name>>]]

\* An Add whose loop stops one entry early (i < tableSize - 1).
Directory_Add_OneShort(tbl, name, newSector, type) ==
    IF \E i \in 1 .. NumDirEntries : InUse(tbl[i]) /\ tbl[i][4] = name
    THEN [ok |-> FALSE, tbl |-> tbl]
    ELSE IF \A i \in 1 .. (NumDirEntries - 1) : InUse(tbl[i]) THEN [ok |-> FALSE, tbl |-> tbl]
    ELSE LET i == CHOOSE k \in 1 .. (NumDirEntries - 1) :
                      ~InUse(tbl[k]) /\ \A j \in 1 .. (k - 1) : InUse(tbl[j])
         IN  [ok |-> TRUE, tbl |-> [tbl EXCEPT ![i] = <<SetInUse(tbl[i], TRUE)[1], type, newSector, name>>]]

\* Directory::Add: [ok, tbl].
Directory_Add(tbl, name, newSector, type) ==
    IF Directory_FindIndex(tbl, name) # -1 THEN [ok |-> FALSE, tbl |-> tbl]
    ELSE IF \A i \in 1 .. NumDirEntries : InUse(tbl[i]) THEN [ok |-> FALSE, tbl |-> tbl]
    ELSE LET i == CHOOSE k \in 1 .. NumDirEntries :
                      ~InUse(tbl[k]) /\ \A j \in 1 .. (k - 1) : InUse(tbl[j])
         IN  [ok |-> TRUE, tbl |-> [tbl EXCEPT ![i] = <<SetInUse(tbl[i], TRUE)[1], type, newSector, name>>]]

\* Directory::Remove(char *name): [ok, tbl].
Directory_Remove(tbl, name) ==
    LET i == Directory_FindIndex(tbl, name)
    IN  IF i = -1 THEN [ok |-> FALSE, tbl |-> tbl]
        ELSE [ok |-> TRUE, tbl |-> [tbl EXCEPT ![i + 1] = SetInUse(tbl[i + 1], FALSE)]]

\* Directory::RemoveRecursive of the source: for every in-use DIR entry,
\* in table order, descend, then write an empty table over the
\* subdirectory.  The table it is called on and the bitmap are not changed.
\* [ok, d]; fuel bounds the depth of the recursion (a directory cannot lie
\* deeper than there are sectors).
RECURSIVE Directory_RemoveRecursive(_, _, _)
RECURSIVE RemoveRecursiveFrom(_, _, _, _)

RemoveRecursiveFrom(d, tbl, i, fuel) ==
    IF i > NumDirEntries THEN [ok |-> TRUE, d |-> d]
    ELSE IF InUse(tbl[i]) /\ tbl[i][2] = DIR_TYPE
    THEN LET Recursed(subDirFile, r) ==
                 IF ~r.ok THEN r
                 ELSE RemoveRecursiveFrom(
                          Directory_WriteBack(r.d, subDirFile.file, Directory_New),
                          tbl, i + 1, fuel)
             Fetched(subDirFile, subDir) ==
                 IF ~subDir.ok THEN [ok |-> FALSE, d |-> d]
                 ELSE Recursed(subDirFile, Directory_RemoveRecursive(d, subDir.tbl, fuel - 1))
             Go(subDirFile) ==
                 IF ~subDirFile.ok THEN [ok |-> FALSE, d |-> d]
                 ELSE Fetched(subDirFile,
                              Directory_FetchFrom(d, subDirFile.file, Directory_New))
         IN  Go(OpenFile_New(d, tbl[i][3]))
    ELSE RemoveRecursiveFrom(d, tbl, i + 1, fuel)

Directory_RemoveRecursive(d, tbl, fuel) ==
    IF fuel = 0 THEN [ok |-> FALSE, d |-> d] ELSE RemoveRecursiveFrom(d, tbl, 1, fuel)

\* ------------------------------------------------------------------------
\* File system (filesys.cc).  An operation is computed from the disk it
\* starts on; "st" is "ok" when it returns and "abort" when a failed ASSERT
\* ends the process; "cur" is the sector of currentDirectoryFile.
\* ------------------------------------------------------------------------
Slash == 0

\* new OpenFile(sector); new Directory(NumDirEntries); FetchFrom.
EnterDirectory(d, sector) ==
    LET Done(f, t) == [ok |-> f.ok /\ t.ok, file |-> f.file, tbl |-> t.tbl]
        Go(f) == Done(f, Directory_FetchFrom(d, f.file, Directory_New))
    IN  Go(OpenFile_New(d, sector))

ResetToRootDirectory(d) == EnterDirectory(d, DirectorySector)

\* FileSystem::ChangeCurrentDirectory: [st, found, d, file, tbl].
ChangeCurrentDirectory(d, file, tbl, name) ==
    LET Entered(d2, e) ==
            [st |-> IF e.ok THEN "ok" ELSE "abort", found |-> TRUE, d |-> d2,
             file |-> e.file, tbl |-> e.tbl]
        Written(dirSector, d2) == Entered(d2, EnterDirectory(d2, dirSector))
        Found(f, dirSector) ==
            IF dirSector = -1
            THEN [st |-> "ok", found |-> FALSE, d |-> d, file |-> file, tbl |-> f.tbl]
            ELSE Written(dirSector, Directory_WriteBack(d, file, f.tbl))
        Go(f) ==
            IF ~f.ok THEN [st |-> "abort", found |-> FALSE, d |-> d, file |-> file, tbl |-> tbl]
            ELSE Found(f, Directory_Find(f.tbl, name))
    IN  Go(Directory_FetchFrom(d, file, tbl))

\* The sizes of the buffers of a path resolution: splitPath and
\* currentParsePath (locals), pathArr (pointers), and the caller's
\* currentPath and filename.
FileNameMaxLen == 2
PATH_DEPTH == 3
PATH_MAX_LEN == PATH_DEPTH * FileNameMaxLen + 1

BufferSize ==
    [splitPath |-> PATH_MAX_LEN, currentParsePath |-> PATH_MAX_LEN,
     pathArr |-> PATH_DEPTH, currentPath |-> PATH_MAX_LEN,
     filename |-> FileNameMaxLen]

NothingStored ==
    [splitPath |-> 0, currentParsePath |-> 0, pathArr |-> 0, currentPath |-> 0,
     filename |-> 0]

\* strlen of a name: a name is the number its characters (1 .. 9) spell, the
\* empty string is 0.
RECURSIVE strlen(_)
strlen(name) == IF name = 0 THEN 0 ELSE 1 + strlen(name \div 10)

\* strlen(currentParsePath) after "entered" components were appended to "/",
\* each with a '/' behind it.
RECURSIVE ParsedLength(_, _)
ParsedLength(pathArr, entered) ==
    IF entered = 0 THEN 1
    ELSE ParsedLength(pathArr, entered - 1) + strlen(pathArr[entered]) + 1

\* What strcpy(splitPath, path), the strtok loop, the strcat calls,
\* strcpy(currentPath, currentParsePath) and strcpy(filename, ...) store,
\* terminators included.
BytesStored(path, pathArr, entered, walked) ==
    [splitPath |-> Len(path) + 1,
     pathArr |-> Len(pathArr),
     currentParsePath |-> ParsedLength(pathArr, entered) + 1,
     currentPath |-> IF walked THEN ParsedLength(pathArr, entered) + 1 ELSE 0,
     filename |-> IF walked /\ Len(pathArr) > 0
                  THEN strlen(pathArr[Len(pathArr)]) + 1 ELSE 0]

\* strtok(splitPath, "/"): the maximal runs of characters other than '/'.
RECURSIVE Strtok(_, _, _)
Strtok(path, i, run) ==
    IF i > Len(path) THEN (IF run = 0 THEN <<>> ELSE <<run>>)
    ELSE IF path[i] = Slash
    THEN (IF run = 0 THEN <<>> ELSE <<run>>) \o Strtok(path, i + 1, 0)
    ELSE Strtok(path, i + 1, 10 * run + path[i])

\* The loop over pathArr[0 .. pathLength - 2].
RECURSIVE WalkPath(_, _, _, _, _)
WalkPath(d, file, tbl, pathArr, i) ==
    LET Go(c) ==
            IF c.st # "ok" \/ ~c.found
            THEN [st |-> c.st, found |-> c.found, d |-> c.d, file |-> c.file,
                  tbl |-> c.tbl, entered |-> i - 1]
            ELSE WalkPath(c.d, c.file, c.tbl, pathArr, i + 1)
    IN  IF i > Len(pathArr) - 1
        THEN [st |-> "ok", found |-> TRUE, d |-> d, file |-> file, tbl |-> tbl,
              entered |-> i - 1]
        ELSE Go(ChangeCurrentDirectory(d, file, tbl, pathArr[i]))

\* FileSystem::ChangeCurrentDirectoryByWholePath:
\* [st, found, d, file, tbl, filename].
\* "wrote" is the number of bytes (of pointers, for pathArr) the call stored
\* in each of its buffers.
ChangeCurrentDirectoryByWholePath(d, path) ==
    LET Walked(pathArr, w) ==
            [st |-> w.st, found |-> w.found, d |-> w.d, file |-> w.file, tbl |-> w.tbl,
             filename |-> IF Len(pathArr) > 0 /\ w.st = "ok" /\ w.found
                          THEN pathArr[Len(pathArr)] ELSE 0,
             wrote |-> BytesStored(path, pathArr, w.entered, w.st = "ok" /\ w.found)]
        Split(root, pathArr) == Walked(pathArr, WalkPath(d, root.file, root.tbl, pathArr, 1))
        Go(root) ==
            IF ~root.ok
            THEN [st |-> "abort", found |-> FALSE, d |-> d, file |-> root.file,
                  tbl |-> root.tbl, filename |-> 0, wrote |-> NothingStored]
            ELSE IF Len(path) = 0 \/ path[1] # Slash
            THEN [st |-> "ok", found |-> FALSE, d |-> d, file |-> root.file,
                  tbl |-> root.tbl, filename |-> 0, wrote |-> NothingStored]
            ELSE Split(root, Strtok(path, 1, 0))
    IN  Go(ResetToRootDirectory(d))

\* The buffers of a path resolution that took more than they hold.
Overrun(wrote) == {b \in DOMAIN BufferSize : wrote[b] > BufferSize[b]}

\* The buffers the resolution of "path" on disk d overruns.  A path that
\* fits splitPath with its terminator fits currentParsePath too, so the
\* directories are only walked for a path that does not.
PathOverrun(d, path) ==
    LET pathArr == Strtok(path, 1, 0)
        leaf == IF Len(pathArr) > 0 THEN pathArr[Len(pathArr)] ELSE 0
    IN  IF Len(path) = 0 \/ path[1] # Slash THEN {}
        ELSE IF /\ Len(path) + 1 <= PATH_MAX_LEN
                /\ Len(pathArr) <= PATH_DEPTH
                /\ strlen(leaf) + 1 <= FileNameMaxLen
        THEN {}
        ELSE Overrun(ChangeCurrentDirectoryByWholePath(d, path).wrote)

\* "success = FALSE" after FindAndSet: the bitmap object (with the header
\* sector and what Allocate marked before it gave up) and the directory
\* object (with the entry Add made) are not written back; the disk stays as
\* it is.
CreateFile_Failed_Flushes(d, file, tbl, bm) ==
    PersistentBitmap_WriteBack(Directory_WriteBack(d, file, tbl), bm)

CreateFile_Failed(d, file, tbl, bm) == d

\* The part CreateFile and CreateDirectory share: find, FindAndSet, Add,
\* Allocate.  [st, success, d, sector, hdr, bm, tbl]: with success, the
\* header sector, the header, the bitmap object and the directory object
\* that are still to be written; d is the disk, not written so far.
CreateEntry(d, file, tbl0, name, type, size) ==
    LET Stop(st, d1) ==
            [st |-> st, success |-> FALSE, d |-> d1, sector |-> -1, hdr |-> NoHeader,
             bm |-> {}, tbl |-> tbl0]
        Allocated(sector, add, a) ==
            IF a.st = "assert" THEN Stop("abort", d)
            ELSE IF a.st = "false"
            THEN Stop("ok", CreateFile_Failed(d, file, add.tbl, a.bm))
            ELSE [st |-> "ok", success |-> TRUE, d |-> d, sector |-> sector,
                  hdr |-> a.hdr, bm |-> a.bm, tbl |-> add.tbl]
        Added(freeMap, sector, add) ==
            IF ~add.ok
            THEN Stop("ok", CreateFile_Failed(d, file, add.tbl, Mark(freeMap, sector)))
            ELSE Allocated(sector, add, FileHeader_Allocate(Mark(freeMap, sector), size))
        Found(f, freeMap, sector) ==
            IF sector = -1 THEN Stop("ok", d)
            ELSE Added(freeMap, sector, Directory_Add(f.tbl, name, sector, type))
        Fresh(f, freeMap) == Found(f, freeMap, FindFree(freeMap))
        Go(f) ==
            IF ~f.ok THEN Stop("abort", d)
            ELSE IF Directory_Find(f.tbl, name) # -1 THEN Stop("ok", d)
            ELSE Fresh(f, PersistentBitmap_FetchFrom(d))
    IN  Go(Directory_FetchFrom(d, file, tbl0))

\* A write-back in its place among the write-backs of a call: p is the disk
\* and the list of objects written so far, d the disk after this one.
NothingWritten(d) == [d |-> d, w |-> <<>>]
Wrote(p, object, d) == [d |-> d, w |-> Append(p.w, object)]

\* CreateFile without "currentDirectory->WriteBack(currentDirectoryFile)":
\* the header and the bitmap are written, the directory is not.
CreateFile_NoDirectoryWrite(d, file, tbl0, name, initialSize) ==
    LET Hdr(e, p) == Wrote(p, "hdr", FileHeader_WriteBack(p.d, e.hdr, e.sector))
        Map(e, p) == Wrote(p, "freeMap", PersistentBitmap_WriteBack(p.d, e.bm))
        Done(p) == [st |-> "ok", success |-> TRUE, d |-> p.d, w |-> p.w]
        Persist(e) ==
            IF ~e.success THEN [st |-> e.st, success |-> FALSE, d |-> e.d, w |-> <<>>]
            ELSE Done(Map(e, Hdr(e, NothingWritten(d))))
    IN  Persist(CreateEntry(d, file, tbl0, name, FILE_TYPE, initialSize))

\* FileSystem::CreateFile on the current directory: [st, success, d, w]; w
\* lists the objects written back, in the order of the calls.
CreateFile(d, file, tbl0, name, initialSize) ==
    LET Hdr(e, p) == Wrote(p, "hdr", FileHeader_WriteBack(p.d, e.hdr, e.sector))
        Dir(e, p) == Wrote(p, "currentDirectory", Directory_WriteBack(p.d, file, e.tbl))
        Map(e, p) == Wrote(p, "freeMap", PersistentBitmap_WriteBack(p.d, e.bm))
        Done(p) == [st |-> "ok", success |-> TRUE, d |-> p.d, w |-> p.w]
        Persist(e) ==
            IF ~e.success THEN [st |-> e.st, success |-> FALSE, d |-> e.d, w |-> <<>>]
            ELSE Done(Map(e, Dir(e, Hdr(e, NothingWritten(d)))))
    IN  Persist(CreateEntry(d, file, tbl0, name, FILE_TYPE, initialSize))

\* CreateDirectory without "newDir->WriteBack(newDirFile)": the blocks of the
\* new directory keep what they held.
CreateDirectory_NoEmptyTable(d, file, tbl0, name) ==
    LET Hdr(e, p) == Wrote(p, "hdr", FileHeader_WriteBack(p.d, e.hdr, e.sector))
        Dir(e, p) == Wrote(p, "currentDirectory", Directory_WriteBack(p.d, file, e.tbl))
        Map(e, p) == Wrote(p, "freeMap", PersistentBitmap_WriteBack(p.d, e.bm))
        Done(p) == [st |-> "ok", success |-> TRUE, d |-> p.d, w |-> p.w]
        Opened(e, p, newDirFile) ==
            IF ~newDirFile.ok THEN [st |-> "abort", success |-> FALSE, d |-> p.d, w |-> p.w]
            ELSE Done(Map(e, Dir(e, p)))
        Written(e, p) == Opened(e, p, OpenFile_New(p.d, e.sector))
        Persist(e) ==
            IF ~e.success THEN [st |-> e.st, success |-> FALSE, d |-> e.d, w |-> <<>>]
            ELSE Written(e, Hdr(e, NothingWritten(d)))
    IN  Persist(CreateEntry(d, file, tbl0, name, DIR_TYPE, DIR_SIZE))

\* FileSystem::CreateDirectory on the current directory: [st, success, d, w].
CreateDirectory(d, file, tbl0, name) ==
    LET Hdr(e, p) == Wrote(p, "hdr", FileHeader_WriteBack(p.d, e.hdr, e.sector))
        NewDir(newDirFile, p) ==
            Wrote(p, "newDir", Directory_WriteBack(p.d, newDirFile.file, Directory_New))
        Dir(e, p) == Wrote(p, "currentDirectory", Directory_WriteBack(p.d, file, e.tbl))
        Map(e, p) == Wrote(p, "freeMap", PersistentBitmap_WriteBack(p.d, e.bm))
        Done(p) == [st |-> "ok", success |-> TRUE, d |-> p.d, w |-> p.w]
        Opened(e, p, newDirFile) ==
            IF ~newDirFile.ok THEN [st |-> "abort", success |-> FALSE, d |-> p.d, w |-> p.w]
            ELSE Done(Map(e, Dir(e, NewDir(newDirFile, p))))
        Written(e, p) == Opened(e, p, OpenFile_New(p.d, e.sector))
        Persist(e) ==
            IF ~e.success THEN [st |-> e.st, success |-> FALSE, d |-> e.d, w |-> <<>>]
            ELSE Written(e, Hdr(e, NothingWritten(d)))
    IN  Persist(CreateEntry(d, file, tbl0, name, DIR_TYPE, DIR_SIZE))

\* An operation that ends in ResetToRootDirectory: [st, ret, d, cur].
AfterReset(d, success) ==
    [st |-> IF ResetToRootDirectory(d).ok THEN "ok" ELSE "abort",
     ret |-> success, d |-> d, cur |-> DirectorySector]

\* The result r of a call, with the objects the call wrote back.
Logged(r, w) == [st |-> r.st, ret |-> r.ret, d |-> r.d, cur |-> r.cur, w |-> w]

\* FileSystem::Create: [st, ret, d, cur, w].
FileSystem_Create(d, path, initialSize) ==
    LET Created(c, r) ==
            Logged(IF r.st # "ok"
                   THEN [st |-> "abort", ret |-> FALSE, d |-> r.d, cur |-> c.file.sector]
                   ELSE AfterReset(r.d, r.success),
                   r.w)
        Go(c) ==
            IF c.st # "ok"
            THEN Logged([st |-> "abort", ret |-> FALSE, d |-> c.d, cur |-> c.file.sector],
                        <<>>)
            ELSE IF ~c.found THEN Logged(AfterReset(c.d, FALSE), <<>>)
            ELSE Created(c, CreateFile(c.d, c.file, c.tbl, c.filename, initialSize))
    IN  Go(ChangeCurrentDirectoryByWholePath(d, path))

\* The caller of CreateDirectory (the -mkdir command): resolve the parent,
\* create the directory in it, go back to the root.
FileSystem_Mkdir(d, path) ==
    LET Created(c, r) ==
            Logged(IF r.st # "ok"
                   THEN [st |-> "abort", ret |-> FALSE, d |-> r.d, cur |-> c.file.sector]
                   ELSE AfterReset(r.d, r.success),
                   r.w)
        Go(c) ==
            IF c.st # "ok"
            THEN Logged([st |-> "abort", ret |-> FALSE, d |-> c.d, cur |-> c.file.sector],
                        <<>>)
            ELSE IF ~c.found THEN Logged(AfterReset(c.d, FALSE), <<>>)
            ELSE Created(c, CreateDirectory(c.d, c.file, c.tbl, c.filename))
    IN  Go(ChangeCurrentDirectoryByWholePath(d, path))

\* A removal that clears the bit of the directory's own header sector
\* instead of the bit of the removed entry's header sector.
RemoveEntry_ClearsParent(d1, freeMap, file, tbl, sector, name) ==
    LET Map(bm, p) == Wrote(p, "freeMap", PersistentBitmap_WriteBack(p.d, bm))
        Dir(p) ==
            Wrote(p, "currentDirectory",
                  Directory_WriteBack(p.d, file, Directory_Remove(tbl, name).tbl))
        Done(p) == [st |-> "ok", d |-> p.d, w |-> p.w]
        Cleared(de) ==
            IF de.st # "ok" \/ sector \notin Sectors
            THEN [st |-> "abort", d |-> d1, w |-> <<>>]
            ELSE Done(Dir(Map(Clear(de.bm, file.sector), NothingWritten(d1))))
        Go(fileHdr) ==
            IF ~fileHdr.ok THEN [st |-> "abort", d |-> d1, w |-> <<>>]
            ELSE Cleared(FileHeader_Deallocate(freeMap, fileHdr.hdr))
    IN  Go(FileHeader_FetchFrom(d1, sector))

\* The tail RemoveFile and RemoveDir share, on the disk d1: fetch the
\* header, Deallocate, Clear(sector), Remove(name), write the map, write
\* the directory.  [st, d, w].
RemoveEntry(d1, freeMap, file, tbl, sector, name) ==
    LET Map(bm, p) == Wrote(p, "freeMap", PersistentBitmap_WriteBack(p.d, bm))
        Dir(p) ==
            Wrote(p, "currentDirectory",
                  Directory_WriteBack(p.d, file, Directory_Remove(tbl, name).tbl))
        Done(p) == [st |-> "ok", d |-> p.d, w |-> p.w]
        Cleared(de) ==
            IF de.st # "ok" \/ sector \notin Sectors
            THEN [st |-> "abort", d |-> d1, w |-> <<>>]
            ELSE Done(Dir(Map(Clear(de.bm, sector), NothingWritten(d1))))
        Go(fileHdr) ==
            IF ~fileHdr.ok THEN [st |-> "abort", d |-> d1, w |-> <<>>]
            ELSE Cleared(FileHeader_Deallocate(freeMap, fileHdr.hdr))
    IN  Go(FileHeader_FetchFrom(d1, sector))

\* FileSystem::RemoveFile: [st, d, w].
RemoveFile(d, file, tbl, sector, fileName) ==
    RemoveEntry(d, PersistentBitmap_FetchFrom(d), file, tbl, sector, fileName)

\* FileSystem::RemoveDir: [st, d, w].
RemoveDir(d, file, tbl, sector, dirName) ==
    LET After(p, r) == [st |-> r.st, d |-> r.d, w |-> p.w \o r.w]
        Entry(freeMap, p) ==
            After(p, RemoveEntry(p.d, freeMap, file, tbl, sector, dirName))
        Recursed(freeMap, removeDirFile, removeDir, rr) ==
            IF ~rr.ok THEN [st |-> "abort", d |-> rr.d, w |-> <<>>]
            ELSE Entry(freeMap,
                      Wrote(NothingWritten(rr.d), "removeDir",
                            Directory_WriteBack(rr.d, removeDirFile.file, removeDir.tbl)))
        Fetched(freeMap, removeDirFile, removeDir) ==
            IF ~removeDir.ok THEN [st |-> "abort", d |-> d, w |-> <<>>]
            ELSE Recursed(freeMap, removeDirFile, removeDir,
                          Directory_RemoveRecursive(d, removeDir.tbl, NumSectors))
        Go(freeMap, removeDirFile) ==
            IF ~removeDirFile.ok THEN [st |-> "abort", d |-> d, w |-> <<>>]
            ELSE Fetched(freeMap, removeDirFile,
                         Directory_FetchFrom(d, removeDirFile.file, Directory_New))
    IN  Go(PersistentBitmap_FetchFrom(d), OpenFile_New(d, sector))

\* Remove without "if (strcmp(filename, "") == 0) return FALSE": the empty
\* leaf name is looked up like any other.
FileSystem_Remove_NoLeafCheck(d, path) ==
    LET Removed(c, r) ==
            Logged(IF r.st # "ok"
                   THEN [st |-> "abort", ret |-> FALSE, d |-> r.d, cur |-> c.file.sector]
                   ELSE AfterReset(r.d, TRUE),
                   r.w)
        Found(c, sector) ==
            IF sector = -1
            THEN Logged([st |-> "ok", ret |-> FALSE, d |-> c.d, cur |-> c.file.sector], <<>>)
            ELSE Removed(c, IF Directory_IsDirectory(c.tbl, c.filename)
                            THEN RemoveDir(c.d, c.file, c.tbl, sector, c.filename)
                            ELSE RemoveFile(c.d, c.file, c.tbl, sector, c.filename))
        Go(c) ==
            IF c.st # "ok"
            THEN Logged([st |-> "abort", ret |-> FALSE, d |-> c.d, cur |-> c.file.sector],
                        <<>>)
            ELSE IF ~c.found THEN Logged(AfterReset(c.d, TRUE), <<>>)
            ELSE Found(c, Directory_Find(c.tbl, c.filename))
    IN  Go(ChangeCurrentDirectoryByWholePath(d, path))

\* FileSystem::Remove: [st, ret, d, cur, w].
FileSystem_Remove(d, path) ==
    LET Removed(c, r) ==
            Logged(IF r.st # "ok"
                   THEN [st |-> "abort", ret |-> FALSE, d |-> r.d, cur |-> c.file.sector]
                   ELSE AfterReset(r.d, TRUE),
                   r.w)
        Found(c, sector) ==
            IF sector = -1
            THEN Logged([st |-> "ok", ret |-> FALSE, d |-> c.d, cur |-> c.file.sector], <<>>)
            ELSE Removed(c, IF Directory_IsDirectory(c.tbl, c.filename)
                            THEN RemoveDir(c.d, c.file, c.tbl, sector, c.filename)
                            ELSE RemoveFile(c.d, c.file, c.tbl, sector, c.filename))
        Go(c) ==
            IF c.st # "ok"
            THEN Logged([st |-> "abort", ret |-> FALSE, d |-> c.d, cur |-> c.file.sector],
                        <<>>)
            ELSE IF ~c.found THEN Logged(AfterReset(c.d, TRUE), <<>>)
            ELSE IF c.filename = 0
            THEN Logged([st |-> "ok", ret |-> FALSE, d |-> c.d, cur |-> c.file.sector], <<>>)
            ELSE Found(c, Directory_Find(c.tbl, c.filename))
    IN  Go(ChangeCurrentDirectoryByWholePath(d, path))

\* A line printf("%s[%d] %s %c\n", offsetStr, i, name, c) prints: the number
\* of spaces of offsetStr, the index, the name and the type character.
\* Without "%s" and offsetStr in the format no space is printed.
Line(spaces, i, name, c) == [spaces |-> spaces, index |-> i, name |-> name, type |-> c]

\* Directory::List: the lines printed, in order.
RECURSIVE ListFrom(_, _)
ListFrom(tbl, i) ==
    IF i > NumDirEntries THEN <<>>
    ELSE (IF InUse(tbl[i])
          THEN <<Line(0, i - 1, tbl[i][4], IF tbl[i][2] = DIR_TYPE THEN "D" ELSE "F")>>
          ELSE <<>>) \o ListFrom(tbl, i + 1)

Directory_List(tbl) == ListFrom(tbl, 1)

\* Directory::ListRecursive(offset): [ok, out], the lines printed, in order;
\* ok = FALSE when the process stops in it.  The line of a directory is
\* printed with offsetStr, the line of a file by the format of List.  fuel
\* bounds the depth of the recursion.
RECURSIVE Directory_ListRecursive(_, _, _, _)
RECURSIVE ListRecursiveFrom(_, _, _, _, _)

ListRecursiveFrom(d, tbl, i, offset, fuel) ==
    LET After(lines, ok, r) == [ok |-> ok /\ r.ok, out |-> lines \o r.out]
        Next(lines, ok) ==
            IF ~ok THEN [ok |-> FALSE, out |-> lines]
            ELSE After(lines, ok, ListRecursiveFrom(d, tbl, i + 1, offset, fuel))
        Listed(line, sub) == Next(<<line>> \o sub.out, sub.ok)
        Fetched(line, subDir) ==
            IF ~subDir.ok THEN [ok |-> FALSE, out |-> <<line>>]
            ELSE Listed(line, Directory_ListRecursive(d, subDir.tbl, offset + 2, fuel - 1))
    IN  IF i > NumDirEntries THEN [ok |-> TRUE, out |-> <<>>]
        ELSE IF ~InUse(tbl[i]) THEN ListRecursiveFrom(d, tbl, i + 1, offset, fuel)
        ELSE IF tbl[i][2] = DIR_TYPE
        THEN Fetched(Line(offset, i - 1, tbl[i][4], "D"), EnterDirectory(d, tbl[i][3]))
        ELSE Next(<<Line(0, i - 1, tbl[i][4], "F")>>, TRUE)

Directory_ListRecursive(d, tbl, offset, fuel) ==
    IF fuel = 0 THEN [ok |-> FALSE, out |-> <<>>]
    ELSE ListRecursiveFrom(d, tbl, 1, offset, fuel)

\* What FileSystem::List and FileSystem::ListRecursive share: resolve the
\* path and, when its last component is not empty, try to enter it; the
\* directory object to list is the current one either way.
\* [st, found, d, file, tbl].
ListedDirectory(d, path) ==
    LET Go(c) ==
            IF c.st # "ok" \/ ~c.found \/ c.filename = 0
            THEN [st |-> c.st, found |-> c.found, d |-> c.d, file |-> c.file, tbl |-> c.tbl]
            ELSE [ChangeCurrentDirectory(c.d, c.file, c.tbl, c.filename)
                      EXCEPT !.found = TRUE]
    IN  Go(ChangeCurrentDirectoryByWholePath(d, path))

\* The end of both: ResetToRootDirectory.  [st, out, d, cur].
AfterListing(d, ok, lines) ==
    [st |-> IF ok /\ ResetToRootDirectory(d).ok THEN "ok" ELSE "abort",
     out |-> lines, d |-> d, cur |-> DirectorySector]

\* FileSystem::List: [st, out, d, cur].
FileSystem_List(d, path) ==
    LET Go(c) ==
            IF c.st # "ok"
            THEN [st |-> "abort", out |-> <<>>, d |-> c.d, cur |-> c.file.sector]
            ELSE IF ~c.found THEN AfterListing(c.d, TRUE, <<>>)
            ELSE AfterListing(c.d, TRUE, Directory_List(c.tbl))
    IN  Go(ListedDirectory(d, path))

\* FileSystem::ListRecursive: [st, out, d, cur].
FileSystem_ListRecursive(d, path) ==
    LET Listed(c, l) ==
            IF ~l.ok THEN [st |-> "abort", out |-> l.out, d |-> c.d, cur |-> c.file.sector]
            ELSE AfterListing(c.d, TRUE, l.out)
        Go(c) ==
            IF c.st # "ok"
            THEN [st |-> "abort", out |-> <<>>, d |-> c.d, cur |-> c.file.sector]
            ELSE IF ~c.found THEN AfterListing(c.d, TRUE, <<>>)
            ELSE Listed(c, Directory_ListRecursive(c.d, c.tbl, 0, NumSectors))
    IN  Go(ListedDirectory(d, path))

\* ------------------------------------------------------------------------
\* Open-file table: std::map<OpenFileId, OpenFile*>.  A key maps to an open
\* file or to NULL.
\* ------------------------------------------------------------------------
NoFile == [sector |-> -1, hdr |-> NoHeader, seekPosition |-> 0]
NullPtr == [open |-> FALSE, file |-> NoFile]

\* table[fd]: the pointer stored under fd, NULL being inserted when fd is
\* not a key.
MapIndex(tab, fd) ==
    IF fd \in DOMAIN tab THEN tab
    ELSE [k \in DOMAIN tab \cup {fd} |-> IF k = fd THEN NullPtr ELSE tab[k]]

\* table.insert({sector, openFile}): no effect when the key is present.
MapInsert(tab, key, file) ==
    IF key \in DOMAIN tab THEN tab
    ELSE [k \in DOMAIN tab \cup {key} |->
             IF k = key THEN [open |-> TRUE, file |-> file] ELSE tab[k]]

MapErase(tab, key) == [k \in DOMAIN tab \ {key} |-> tab[k]]

\* FileSystem::OpenAFile: [st, sectorSet, sector, d, cur, tab]; sectorSet is
\* FALSE when the returned local "sector" was never assigned.
FileSystem_OpenAFile(d, tab, path) ==
    LET Back(c, sectorSet, sector, tab1) ==
            [st |-> IF ResetToRootDirectory(c.d).ok THEN "ok" ELSE "abort",
             sectorSet |-> sectorSet, sector |-> sector, d |-> c.d,
             cur |-> DirectorySector, tab |-> tab1]
        Opened(c, sector, openFile) ==
            IF ~openFile.ok
            THEN [st |-> "abort", sectorSet |-> TRUE, sector |-> sector, d |-> c.d,
                  cur |-> c.file.sector, tab |-> tab]
            ELSE Back(c, TRUE, sector, MapInsert(tab, sector, openFile.file))
        Found(c, sector) ==
            IF sector >= 0 THEN Opened(c, sector, OpenFile_New(c.d, sector))
            ELSE Back(c, TRUE, sector, tab)
        Go(c) ==
            IF c.st # "ok"
            THEN [st |-> "abort", sectorSet |-> FALSE, sector |-> 0, d |-> c.d,
                  cur |-> c.file.sector, tab |-> tab]
            ELSE IF ~c.found THEN Back(c, FALSE, 0, tab)
            ELSE Found(c, Directory_Find(c.tbl, c.filename))
    IN  Go(ChangeCurrentDirectoryByWholePath(d, path))

\* A sector is NUM_INT_IN_SECTOR ints to the header and directory code and
\* SectorSize chars to ReadAt / WriteAt: byte k of an int, and the int of 4
\* bytes, of a little-endian machine with 32-bit two's complement ints.
Pow256(k) == CASE k = 0 -> 1 [] k = 1 -> 256 [] k = 2 -> 65536 [] OTHER -> 16777216

ByteOf(w, k) ==
    IF w >= 0 THEN (w \div Pow256(k)) % 256
    ELSE 255 - (((-(w + 1)) \div Pow256(k)) % 256)

WordOf(b) ==
    b[1] + 256 * b[2] + 65536 * b[3] + 16777216 * (IF b[4] >= 128 THEN b[4] - 256 ELSE b[4])

\* The SectorSize bytes of a sector, and the sector of SectorSize bytes.
SectorBytes(sec) ==
    [j \in 1 .. SectorSize |-> ByteOf(sec[((j - 1) \div SizeofInt) + 1], (j - 1) % SizeofInt)]

BytesSector(b) ==
    [w \in 1 .. NUM_INT_IN_SECTOR |-> WordOf(SubSeq(b, SizeofInt * (w - 1) + 1, SizeofInt * w))]

\* The byte at "offset" of the file, read from the sector ByteToSector gives.
FileByte(d, hdr, offset) ==
    SectorBytes(d[FileSector(hdr, offset \div SectorSize)])[(offset % SectorSize) + 1]

\* Every sector of the bytes [position, position + n) translates.
RangeOk(hdr, position, n) ==
    \A k \in (position \div SectorSize) .. ((position + n - 1) \div SectorSize) :
        FileSector(hdr, k) # -1

\* The bytes WriteAt holds for sector i of the file before it writes: the
\* bytes of "from" that fall into the sector, and for the rest of a first or
\* last sector that is written in part, the bytes read from the disk d0.
SectorImage(d0, hdr, from, position, n, i) ==
    LET Old(j) == SectorBytes(d0[FileSector(hdr, i)])[j]
        New(j, offset) ==
            IF offset >= position /\ offset < position + n
            THEN from[(offset - position) + 1]
            ELSE Old(j)
    IN  [j \in 1 .. SectorSize |-> New(j, i * SectorSize + j - 1)]

\* OpenFile::WriteAt, the loop over firstSector .. lastSector: [ok, d]; a
\* sector that does not translate ends the process after the sectors before
\* it were written.
RECURSIVE WriteSectors(_, _, _, _, _, _, _, _)
WriteSectors(d0, d, hdr, from, position, n, i, lastSector) ==
    IF i > lastSector THEN [ok |-> TRUE, d |-> d]
    ELSE IF FileSector(hdr, i) = -1 THEN [ok |-> FALSE, d |-> d]
    ELSE WriteSectors(d0,
                      WriteSector(d, FileSector(hdr, i),
                                  BytesSector(SectorImage(d0, hdr, from, position, n, i))),
                      hdr, from, position, n, i + 1, lastSector)

\* OpenFile::WriteAt(from, numBytes, position): [ok, d, n].
OpenFile_WriteAt(d, file, from, numBytes, position) ==
    LET Done(n, w) == [ok |-> w.ok, d |-> w.d, n |-> n]
        Go(n) ==
            IF n = 0 THEN [ok |-> TRUE, d |-> d, n |-> 0]
            ELSE Done(n, WriteSectors(d, d, file.hdr, from, position, n,
                                      position \div SectorSize,
                                      (position + n - 1) \div SectorSize))
    IN  Go(ClippedBytes(file.hdr, numBytes, position))

\* OpenFile::ReadAt(into, numBytes, position): [ok, n, data], data being the
\* n bytes copied into the caller's buffer.
OpenFile_ReadAt(d, file, numBytes, position) ==
    LET Go(n) ==
            IF n = 0 THEN [ok |-> TRUE, n |-> 0, data |-> <<>>]
            ELSE IF ~RangeOk(file.hdr, position, n) THEN [ok |-> FALSE, n |-> n, data |-> <<>>]
            ELSE [ok |-> TRUE, n |-> n,
                  data |-> [j \in 1 .. n |-> FileByte(d, file.hdr, position + j - 1)]]
    IN  Go(ClippedBytes(file.hdr, numBytes, position))

\* FileSystem::WriteFile: [st, ret, d, tab].
FileSystem_WriteFile(d, tab, buffer, size, fd) ==
    LET Written(tab1, w) ==
            IF ~w.ok THEN [st |-> "abort", ret |-> -1, d |-> w.d, tab |-> tab1]
            ELSE [st |-> "ok", ret |-> w.n, d |-> w.d,
                  tab |-> [tab1 EXCEPT ![fd].file.seekPosition = @ + w.n]]
        Go(tab1) ==
            IF ~tab1[fd].open THEN [st |-> "ok", ret |-> -1, d |-> d, tab |-> tab1]
            ELSE Written(tab1, OpenFile_WriteAt(d, tab1[fd].file, buffer, size,
                                                tab1[fd].file.seekPosition))
    IN  Go(MapIndex(tab, fd))

\* ReadFile without "if (!openFile) return -1": the call is passed to the
\* pointer, which reads nothing.
FileSystem_ReadFile_NoNullCheck(d, tab, size, fd) ==
    LET Go(tab1) ==
            IF ~tab1[fd].open
            THEN [st |-> "ok", ret |-> 0, d |-> d, tab |-> tab1, data |-> <<>>]
            ELSE [st |-> "ok", ret |-> ClippedBytes(tab1[fd].file.hdr, size,
                                                    tab1[fd].file.seekPosition),
                  d |-> d, tab |-> tab1, data |-> <<>>]
    IN  Go(MapIndex(tab, fd))

\* FileSystem::ReadFile: [st, ret, d, tab, data].
FileSystem_ReadFile(d, tab, size, fd) ==
    LET Read(tab1, r) ==
            IF ~r.ok THEN [st |-> "abort", ret |-> -1, d |-> d, tab |-> tab1, data |-> <<>>]
            ELSE [st |-> "ok", ret |-> r.n, d |-> d,
                  tab |-> [tab1 EXCEPT ![fd].file.seekPosition = @ + r.n],
                  data |-> r.data]
        Go(tab1) ==
            IF ~tab1[fd].open
            THEN [st |-> "ok", ret |-> -1, d |-> d, tab |-> tab1, data |-> <<>>]
            ELSE Read(tab1, OpenFile_ReadAt(d, tab1[fd].file, size,
                                            tab1[fd].file.seekPosition))
    IN  Go(MapIndex(tab, fd))

\* CloseFile without "table.erase(fd)": the entry stays in the table.
FileSystem_CloseFile_KeepsEntry(d, tab, fd) ==
    LET Go(tab1) ==
            IF ~tab1[fd].open THEN [st |-> "ok", ret |-> 0, d |-> d, tab |-> tab1]
            ELSE [st |-> "ok", ret |-> 1, d |-> d, tab |-> tab1]
    IN  Go(MapIndex(tab, fd))

\* FileSystem::CloseFile: [st, ret, d, tab].
FileSystem_CloseFile(d, tab, fd) ==
    LET Go(tab1) ==
            IF ~tab1[fd].open THEN [st |-> "ok", ret |-> 0, d |-> d, tab |-> tab1]
            ELSE [st |-> "ok", ret |-> 1, d |-> d, tab |-> MapErase(tab1, fd)]
    IN  Go(MapIndex(tab, fd))

\* ------------------------------------------------------------------------
\* FileSystem::FileSystem(format = TRUE): the disk after the format of a
\* disk of zero bytes.
\* ------------------------------------------------------------------------
\* A format that does not flush the bitmap (no freeMap->WriteBack).
FormattedDisk_NoMapWriteBack ==
    LET d0 == [s \in Sectors |-> ZeroSector]
        d1 == FileHeader_WriteBack(d0, FormatMapAllocate.hdr, FreeMapSector)
        d2 == FileHeader_WriteBack(d1, FormatDirAllocate.hdr, DirectorySector)
        directoryFile == OpenFile_New(d2, DirectorySector).file
    IN  Directory_WriteBack(d2, directoryFile, Directory_New)

FormattedDisk ==
    LET d0 == [s \in Sectors |-> ZeroSector]
        d1 == FileHeader_WriteBack(d0, FormatMapAllocate.hdr, FreeMapSector)
        d2 == FileHeader_WriteBack(d1, FormatDirAllocate.hdr, DirectorySector)
        directoryFile == OpenFile_New(d2, DirectorySector).file
        d3 == PersistentBitmap_WriteBack(d2, FormatDirAllocate.bm)
    IN  Directory_WriteBack(d3, directoryFile, Directory_New)

\* ------------------------------------------------------------------------
\* The stub file system (filesys.h, FILESYS_STUB): calls to the host.  The
\* host keeps a set of file names and a set of open descriptors; an open
\* returns the lowest descriptor above the standard streams that is free.
\* fileDescriptorTable maps an index to the descriptor of the OpenFile stored
\* there, NULL being no descriptor.
\* ------------------------------------------------------------------------
\* FS_OPENFILE_NUMS is 20 in the source; 3 slots show the same cases (slot 0
\* never used, a full table).
FS_OPENFILE_NUMS == 3
FirstHostFd == 3
NULL == 0

StubTable_New == [i \in 0 .. (FS_OPENFILE_NUMS - 1) |-> NULL]

HostOpen(fds) == CHOOSE k \in FirstHostFd .. (FirstHostFd + Cardinality(fds)) :
                     k \notin fds /\ \A j \in FirstHostFd .. (k - 1) : j \in fds

\* "int freeIndex = NULL; for (...) if (!fileDescriptorTable[i]) freeIndex = i;":
\* the last free index, 0 when there is none.
Stub_FreeIndex(fdt) ==
    IF \E i \in DOMAIN fdt : fdt[i] = NULL
    THEN CHOOSE i \in DOMAIN fdt : fdt[i] = NULL /\ \A j \in DOMAIN fdt : fdt[j] = NULL => j <= i
    ELSE NULL

\* FileSystem::OpenAFile of the stub: [ret, fdt, fds].
Stub_OpenAFile(fdt, names, fds, name) ==
    LET Stored(fd, freeIndex) ==
            IF freeIndex = 0 THEN [ret |-> -1, fdt |-> fdt, fds |-> fds \cup {fd}]
            ELSE [ret |-> fd, fdt |-> [fdt EXCEPT ![freeIndex] = fd], fds |-> fds \cup {fd}]
        Go(fd) == Stored(fd, Stub_FreeIndex(fdt))
    IN  IF name \notin names THEN [ret |-> -1, fdt |-> fdt, fds |-> fds]
        ELSE Go(HostOpen(fds))

\* The linear search of WriteFile, ReadFile and CloseFile: the first index
\* whose OpenFile has the descriptor, -1 when the loop ends.
Stub_Search(fdt, fd) ==
    IF \E i \in DOMAIN fdt : fdt[i] # NULL /\ fdt[i] = fd
    THEN CHOOSE i \in DOMAIN fdt :
             /\ fdt[i] # NULL /\ fdt[i] = fd
             /\ \A j \in DOMAIN fdt : (fdt[j] # NULL /\ fdt[j] = fd) => i <= j
    ELSE -1

\* FileSystem::WriteFile and FileSystem::ReadFile of the stub; "done" is the
\* count the host's write or read gives.
Stub_WriteFile(fdt, done, fd) == IF Stub_Search(fdt, fd) = -1 THEN -1 ELSE done
Stub_ReadFile(fdt, done, fd) == IF Stub_Search(fdt, fd) = -1 THEN -1 ELSE done

\* FileSystem::CloseFile of the stub: [ret, fdt, fds].
Stub_CloseFile(fdt, fds, fd) ==
    LET Go(i) ==
            IF i = -1 THEN [ret |-> 0, fdt |-> fdt, fds |-> fds]
            ELSE [ret |-> 1, fdt |-> [fdt EXCEPT ![i] = NULL], fds |-> fds \ {fd}]
    IN  Go(Stub_Search(fdt, fd))

\* ------------------------------------------------------------------------
\* The state machine: one action per call of the file system.
\* ------------------------------------------------------------------------
MaxOps == 3
MaxFileOps == 4

\* Paths are strings over '/' (Slash) and the characters 1, 2 and 3.
Paths == {<<0, 1>>, <<0, 2>>, <<0, 3>>, <<0, 1, 0, 1>>, <<0>>, <<1>>}
FileSizes == {0, SectorSize, 3 * SectorSize, 7 * SectorSize, 8 * SectorSize}
FilePaths == {<<0, 1>>, <<0, 2, 0, 1>>, <<1>>}
SmallSizes == {SectorSize}
Ids == {3, 8, 9}
IoSizes == {SectorSize}
\* A user buffer of n bytes: 1, 2, 3, 4, 5, 1, 2, ...
Pattern(n) == [i \in 1 .. n |-> 1 + ((i - 1) % 5)]
FileBuffers == {Pattern(SectorSize)}

VARIABLES
    stub,       \* the build: TRUE with FILESYS_STUB
    disk,       \* the sectors of the simulated disk
    cur,        \* the sector of currentDirectoryFile
    table,      \* FileSystem::table, the open files of the disk-backed build
    fdt,        \* fileDescriptorTable of the stub
    hostNames,  \* the files of the host
    hostFds,    \* the descriptors open on the host
    proc,       \* "running", or how the process ended: "assert", "fault"
    nops,       \* the number of calls made
    lastOp,     \* the last call and its arguments
    ret,        \* what the last call returned
    preMap,     \* the persisted bitmap before the last call
    openIds,    \* the ids OpenAFile gave for a file it opened, not closed since
    okSoFar,    \* every call so far returned its success value
    out,        \* the lines the last List / ListRecursive printed
    readBuf,    \* the bytes the last ReadFile put into the caller's buffer
    lastWrite,  \* the last WriteFile that wrote: id, position and bytes
    closedIds,  \* the ids CloseFile closed, not returned by OpenAFile since
    writes,     \* what the last call wrote back, in the order of the writes
    overrun,    \* the buffers the last call's path resolution wrote past
    hdr,        \* a FileHeader object the calls of SpecHeader act on
    hdrSector,  \* the sector FindAndSet gave for that header
    hdrState,   \* "new", "allocated", "written" or "fetched"
    built,      \* the header as Allocate left it
    freeMap,    \* the bitmap object Allocate takes sectors from
    dirTable    \* the table of a Directory object the calls of SpecDirectory act on

objects == <<hdr, hdrSector, hdrState, built, freeMap, dirTable>>

\* What the calls of the file system leave for the caller and the observer.
io == <<readBuf, lastWrite, closedIds, writes, overrun>>

vars == <<stub, disk, cur, table, fdt, hostNames, hostFds, proc, nops, lastOp, ret,
          preMap, openIds, okSoFar, out, io, objects>>

PersistedMap == PersistentBitmap_FetchFrom(disk)

NoWrite == [fd |-> -1, position |-> 0, data |-> <<>>]

InitSystem ==
    /\ disk = FormattedDisk
    /\ cur = DirectorySector
    /\ table = <<>>
    /\ fdt = StubTable_New
    /\ hostNames = {}
    /\ hostFds = {}
    /\ proc = "running"
    /\ nops = 0
    /\ lastOp = [op |-> "Format", path |-> <<>>, size |-> 0, fd |-> -1]
    /\ ret = 0
    /\ preMap = {}
    /\ openIds = {}
    /\ okSoFar = TRUE
    /\ out = <<>>
    /\ readBuf = <<>>
    /\ lastWrite = NoWrite
    /\ closedIds = {}
    /\ writes = <<>>
    /\ overrun = {}

\* No FileHeader, bitmap or Directory object is held between two calls of
\* the file system.
NoObjects ==
    /\ hdr = NoHeader
    /\ hdrSector = -1
    /\ hdrState = "new"
    /\ built = NoHeader
    /\ freeMap = {}
    /\ dirTable = Directory_New

InitBoth == InitSystem /\ NoObjects

\* The disk-backed build after FileSystem(format = TRUE).
Init == stub = FALSE /\ InitBoth

\* Either build after the construction of its FileSystem.
InitFiles == stub \in BOOLEAN /\ InitBoth

halted == proc # "running"

\* The process runs and may make another call.
Running(bound) == ~halted /\ nops < bound

\* The value a call returns is its success value (ksyscall.h).
Succeeded(op, value) ==
    IF op \in {"Create", "Mkdir", "Remove", "Close"} THEN value = 1 ELSE value >= 0

\* The bookkeeping of a call, once proc' and ret' are set.
Book(op, path, size, fd) ==
    /\ nops' = nops + 1
    /\ lastOp' = [op |-> op, path |-> path, size |-> size, fd |-> fd]
    /\ preMap' = PersistedMap
    /\ okSoFar' = (okSoFar /\ proc' = "running" /\ Succeeded(op, ret'))
    /\ closedIds' = IF op = "Close" /\ ret' = 1 THEN closedIds \cup {fd}
                    ELSE IF op = "Open" THEN closedIds \ {ret'}
                    ELSE closedIds
    /\ overrun' = IF stub THEN {} ELSE PathOverrun(disk, path)
    /\ UNCHANGED <<stub, objects>>

\* The same for a call that prints nothing, reads no file and writes no file.
Quiet == UNCHANGED <<out, readBuf, lastWrite>>
Step(op, path, size, fd) == Book(op, path, size, fd) /\ Quiet /\ writes' = <<>>

BoolRet(b) == IF b THEN 1 ELSE 0
Ended(st) ==
    IF st = "ok" THEN "running" ELSE IF st = "smashed" THEN "fault" ELSE "assert"

\* A path resolution that writes past a buffer has no defined outcome: the
\* call may go on as if the buffer had held it (r), or do so and end in a
\* fault when the function that owns the buffer returns.  (That it ends
\* before it did anything is the outcome of Fault.)
Outcomes(d, path, r) ==
    IF PathOverrun(d, path) = {} THEN {r} ELSE {r, [r EXCEPT !.st = "smashed"]}

\* "new FileHeader" leaves table[] unset, and Allocate, FetchFrom and the
\* destructor delete what a non-null slot holds: with a heap that is not
\* zero the call ends in a fault, whatever its arguments are.
Fault(op) ==
    /\ proc' = "fault"
    /\ ret' = 0
    /\ UNCHANGED <<disk, cur, table, fdt, hostNames, hostFds, openIds>>
    /\ Step(op, <<>>, 0, -1)

StubIdle == UNCHANGED <<fdt, hostNames, hostFds>>
DiskIdle == UNCHANGED <<disk, cur, table>>

\* SysCreate -> FileSystem::Create.
Create(paths, sizes, bound) ==
    /\ ~stub /\ Running(bound)
    /\ \/ Fault("Create")
       \/ \E path \in paths, initialSize \in sizes :
           \E r \in Outcomes(disk, path, FileSystem_Create(disk, path, initialSize)) :
            /\ disk' = r.d
            /\ cur' = r.cur
            /\ proc' = Ended(r.st)
            /\ ret' = BoolRet(r.ret)
            /\ writes' = r.w
            /\ StubIdle /\ UNCHANGED <<table, openIds>>
            /\ Book("Create", path, initialSize, -1) /\ Quiet

\* The -mkdir command -> FileSystem::CreateDirectory.
Mkdir(paths, bound) ==
    /\ ~stub /\ Running(bound)
    /\ \/ Fault("Mkdir")
       \/ \E path \in paths :
           \E r \in Outcomes(disk, path, FileSystem_Mkdir(disk, path)) :
            /\ disk' = r.d
            /\ cur' = r.cur
            /\ proc' = Ended(r.st)
            /\ ret' = BoolRet(r.ret)
            /\ writes' = r.w
            /\ StubIdle /\ UNCHANGED <<table, openIds>>
            /\ Book("Mkdir", path, 0, -1) /\ Quiet

\* FileSystem::Remove.
Remove(paths, bound) ==
    /\ ~stub /\ Running(bound)
    /\ \/ Fault("Remove")
       \/ \E path \in paths :
           \E r \in Outcomes(disk, path, FileSystem_Remove(disk, path)) :
            /\ disk' = r.d
            /\ cur' = r.cur
            /\ proc' = Ended(r.st)
            /\ ret' = BoolRet(r.ret)
            /\ writes' = r.w
            /\ StubIdle /\ UNCHANGED <<table, openIds>>
            /\ Book("Remove", path, 0, -1) /\ Quiet

\* SysOpen -> FileSystem::OpenAFile.  The value returned is the local
\* "sector", any value when it was never assigned.
OpenAFile(paths, bound) ==
    /\ ~stub /\ Running(bound)
    /\ \/ Fault("Open")
       \/ \E path \in paths :
           \E r \in Outcomes(disk, path, FileSystem_OpenAFile(disk, table, path)) :
            \E sector \in (IF r.sectorSet THEN {r.sector} ELSE Garbage) :
                /\ disk' = r.d
                /\ cur' = r.cur
                /\ table' = r.tab
                /\ proc' = Ended(r.st)
                /\ ret' = sector
                /\ openIds' = IF r.st = "ok" /\ r.sectorSet /\ r.sector >= 0
                              THEN openIds \cup {r.sector} ELSE openIds
                /\ StubIdle
                /\ Step("Open", path, 0, -1)

\* SysWrite -> FileSystem::WriteFile, on the first "size" bytes of a buffer.
WriteFile(ids, buffers, sizes, bound) ==
    /\ ~stub /\ Running(bound)
    /\ \E fd \in ids, buffer \in buffers, size \in sizes :
        /\ size <= Len(buffer)
        /\ \E r \in {FileSystem_WriteFile(disk, table, buffer, size, fd)} :
            /\ disk' = r.d
            /\ table' = r.tab
            /\ proc' = Ended(r.st)
            /\ ret' = r.ret
            /\ lastWrite' = IF r.st = "ok" /\ r.ret > 0
                            THEN [fd |-> fd,
                                  position |-> r.tab[fd].file.seekPosition - r.ret,
                                  data |-> SubSeq(buffer, 1, r.ret)]
                            ELSE lastWrite
            /\ StubIdle /\ UNCHANGED <<cur, openIds, out, readBuf>>
            /\ writes' = <<>>
            /\ Book("Write", <<>>, size, fd)

\* SysRead -> FileSystem::ReadFile.
ReadFile(ids, sizes, bound) ==
    /\ ~stub /\ Running(bound)
    /\ \E fd \in ids, size \in sizes :
        \E r \in {FileSystem_ReadFile(disk, table, size, fd)} :
            /\ disk' = r.d
            /\ table' = r.tab
            /\ proc' = Ended(r.st)
            /\ ret' = r.ret
            /\ readBuf' = r.data
            /\ StubIdle /\ UNCHANGED <<cur, openIds, out, lastWrite>>
            /\ writes' = <<>>
            /\ Book("Read", <<>>, size, fd)

\* SysClose -> FileSystem::CloseFile; "delete eraseFile" runs the header's
\* destructor.
CloseFile(ids, bound) ==
    /\ ~stub /\ Running(bound)
    /\ \/ /\ \E fd \in ids : fd \in DOMAIN table /\ table[fd].open
          /\ Fault("Close")
       \/ \E fd \in ids :
           \E r \in {FileSystem_CloseFile(disk, table, fd)} :
            /\ disk' = r.d
            /\ table' = r.tab
            /\ proc' = Ended(r.st)
            /\ ret' = r.ret
            /\ openIds' = openIds \ {fd}
            /\ StubIdle /\ UNCHANGED cur
            /\ Step("Close", <<>>, 0, fd)

\* The -l command -> FileSystem::List.
List(paths, bound) ==
    /\ ~stub /\ Running(bound)
    /\ \/ Fault("List")
       \/ \E path \in paths :
           \E r \in Outcomes(disk, path, FileSystem_List(disk, path)) :
            /\ disk' = r.d
            /\ cur' = r.cur
            /\ proc' = Ended(r.st)
            /\ ret' = 0
            /\ out' = r.out
            /\ StubIdle /\ UNCHANGED <<table, openIds, readBuf, lastWrite>>
            /\ writes' = <<>>
            /\ Book("List", path, 0, -1)

\* The -lr command -> FileSystem::ListRecursive.
ListRecursive(paths, bound) ==
    /\ ~stub /\ Running(bound)
    /\ \/ Fault("ListRecursive")
       \/ \E path \in paths :
           \E r \in Outcomes(disk, path, FileSystem_ListRecursive(disk, path)) :
            /\ disk' = r.d
            /\ cur' = r.cur
            /\ proc' = Ended(r.st)
            /\ ret' = 0
            /\ out' = r.out
            /\ StubIdle /\ UNCHANGED <<table, openIds, readBuf, lastWrite>>
            /\ writes' = <<>>
            /\ Book("ListRecursive", path, 0, -1)

\* The stub's Create: OpenForWrite makes the host file, Close follows.
StubCreate(paths, bound) ==
    /\ stub /\ Running(bound)
    /\ \E name \in paths :
        /\ hostNames' = hostNames \cup {name}
        /\ ret' = BoolRet(TRUE)
        /\ DiskIdle /\ UNCHANGED <<fdt, hostFds, proc, openIds>>
        /\ Step("Create", name, 0, -1)

StubOpenAFile(paths, bound) ==
    /\ stub /\ Running(bound)
    /\ \E name \in paths :
        \E r \in {Stub_OpenAFile(fdt, hostNames, hostFds, name)} :
            /\ fdt' = r.fdt
            /\ hostFds' = r.fds
            /\ ret' = r.ret
            /\ openIds' = IF r.ret >= 0 THEN openIds \cup {r.ret} ELSE openIds
            /\ DiskIdle /\ UNCHANGED <<hostNames, proc>>
            /\ Step("Open", name, 0, -1)

StubWriteFile(bound) ==
    /\ stub /\ Running(bound)
    /\ \E fd \in Ids, size \in IoSizes :
        /\ ret' = Stub_WriteFile(fdt, size, fd)
        /\ DiskIdle /\ StubIdle /\ UNCHANGED <<proc, openIds>>
        /\ Step("Write", <<>>, size, fd)

StubReadFile(bound) ==
    /\ stub /\ Running(bound)
    /\ \E fd \in Ids, size \in IoSizes :
        \E done \in {0, size} :
        /\ ret' = Stub_ReadFile(fdt, done, fd)
        /\ DiskIdle /\ StubIdle /\ UNCHANGED <<proc, openIds>>
        /\ Step("Read", <<>>, size, fd)

StubCloseFile(bound) ==
    /\ stub /\ Running(bound)
    /\ \E fd \in Ids :
        \E r \in {Stub_CloseFile(fdt, hostFds, fd)} :
            /\ fdt' = r.fdt
            /\ hostFds' = r.fds
            /\ ret' = r.ret
            /\ openIds' = openIds \ {fd}
            /\ DiskIdle /\ UNCHANGED <<hostNames, proc>>
            /\ Step("Close", <<>>, 0, fd)

\* Creation and removal on the disk-backed build.
Next ==
    \/ Create(Paths, FileSizes, MaxOps)
    \/ Mkdir(Paths, MaxOps)
    \/ Remove(Paths, MaxOps)

Spec == Init /\ [][Next]_vars

\* The open-file calls of either build.
NextFiles ==
    \/ Create(FilePaths, SmallSizes, MaxFileOps)
    \/ OpenAFile(FilePaths, MaxFileOps)
    \/ WriteFile(Ids, FileBuffers, IoSizes, MaxFileOps)
    \/ ReadFile(Ids, IoSizes, MaxFileOps)
    \/ CloseFile(Ids, MaxFileOps)
    \/ StubCreate(FilePaths, MaxFileOps)
    \/ StubOpenAFile(FilePaths, MaxFileOps)
    \/ StubWriteFile(MaxFileOps)
    \/ StubReadFile(MaxFileOps)
    \/ StubCloseFile(MaxFileOps)

SpecFiles == InitFiles /\ [][NextFiles]_vars

\* Listing a tree of directories: /1, /1/2 and the files /1/2/3 and /3.
MaxListOps == 4
ListDirs == {<<0, 1>>, <<0, 1, 0, 2>>}
ListFiles == {<<0, 1, 0, 2, 0, 3>>, <<0, 3>>}
ListPaths == {<<0>>, <<0, 1>>}

NextList ==
    \/ Mkdir(ListDirs, MaxListOps)
    \/ Create(ListFiles, SmallSizes, MaxListOps)
    \/ List(ListPaths, MaxListOps)
    \/ ListRecursive(ListPaths, MaxListOps)

SpecList == Init /\ [][NextList]_vars

\* File contents: the file /1 of 2 bytes (level 1) or of 7 sectors (level
\* 3), written through its id from a patterned buffer or from a buffer that
\* holds the bytes of a directory entry, closed, opened again and read.
MaxDataOps == 6
DataFiles == {<<0, 1>>}
DataOpens == {<<0, 1>>, <<0, 1, 0, 1>>}
DataSizes == {2, 7 * SectorSize}
DataIds == {FindFree(PersistentBitmap_FetchFrom(FormattedDisk))}
\* The bytes of the entry <inUse = TRUE, FILE_TYPE, sector 0, name "1">.
EntryImage == SectorBytes(<<1, FILE_TYPE, FreeMapSector, 1>>)
DataBuffers == {Pattern(7 * SectorSize), EntryImage}
DataIoSizes == {1, SectorSize, 7 * SectorSize}

NextData ==
    \/ Create(DataFiles, DataSizes, MaxDataOps)
    \/ OpenAFile(DataOpens, MaxDataOps)
    \/ WriteFile(DataIds, DataBuffers, DataIoSizes, MaxDataOps)
    \/ ReadFile(DataIds, DataIoSizes, MaxDataOps)
    \/ CloseFile(DataIds, MaxDataOps)

SpecData == Init /\ [][NextData]_vars

\* Directories made, filled, removed, made again and listed: /1 and /2,
\* with the file /1/1.
MaxTreeOps == 5
TreeDirs == {<<0, 1>>, <<0, 2>>}
TreeFiles == {<<0, 1, 0, 1>>}

NextTree ==
    \/ Mkdir(TreeDirs, MaxTreeOps)
    \/ Create(TreeFiles, SmallSizes, MaxTreeOps)
    \/ Remove(TreeDirs, MaxTreeOps)
    \/ List(TreeDirs, MaxTreeOps)

SpecTree == Init /\ [][NextTree]_vars

\* The disk-backed build under paths with empty components, trailing
\* slashes, names of FileNameMaxLen characters and PATH_DEPTH components.
MaxPathOps == 3
PathDirs == {<<0, 1>>, <<0, 1, 0>>, <<0, 1, 2>>, <<0, 1, 2, 0, 1, 2>>}
PathFiles ==
    {<<0, 1, 0, 0, 2>>, <<0, 1, 0, 2>>, <<0>>, <<0, 0>>,
     <<0, 1, 2, 0, 1, 2, 0, 1, 2>>}

NextPath ==
    \/ Mkdir(PathDirs, MaxPathOps)
    \/ Create(PathFiles, SmallSizes, MaxPathOps)
    \/ List(PathDirs, MaxPathOps)

SpecPath == Init /\ [][NextPath]_vars

\* The disk-backed build with files that are opened, removed and created
\* again while ids are held.
MaxLiveOps == 5
LivePaths == {<<0, 1>>, <<0, 2>>}
LiveSizes == {SectorSize, 2 * SectorSize}

NextLive ==
    \/ Create(LivePaths, LiveSizes, MaxLiveOps)
    \/ OpenAFile(LivePaths, MaxLiveOps)
    \/ Remove(LivePaths, MaxLiveOps)
    \/ CloseFile(DataIds, MaxLiveOps)

SpecLive == Init /\ [][NextLive]_vars

\* The disk-backed build with a directory "/1" for two files and one file
\* "/2" in the root, created and removed again, in the runs in which every
\* call returns its success value.  "/2/18" names, when "/2" is a file whose
\* data sector held a header before, the entry that the words of that old
\* header make.
MaxFreeOps == 9
FreeRemoved == {<<0, 2>>, <<0, 1, 0, 1>>, <<0, 2, 0, 1, 8>>}

NextFree ==
    \/ Mkdir({<<0, 1>>}, MaxFreeOps) /\ okSoFar'
    \/ Create({<<0, 1, 0, 1>>}, {SectorSize}, MaxFreeOps) /\ okSoFar'
    \/ Create({<<0, 1, 0, 2>>}, {0}, MaxFreeOps) /\ okSoFar'
    \/ Create({<<0, 2>>}, {SectorSize, 2 * SectorSize}, MaxFreeOps) /\ okSoFar'
    \/ Remove(FreeRemoved, MaxFreeOps) /\ okSoFar'

SpecFree == Init /\ [][NextFree]_vars

\* ------------------------------------------------------------------------
\* One FileHeader object, as CreateFile and OpenFile use it: FindAndSet gives
\* the header's sector, Allocate builds the header, WriteBack writes it to
\* that sector, FetchFrom reads a header back from it; ByteToSector is asked
\* of the header in memory.
\* ------------------------------------------------------------------------
\* Every size up to the first one no level holds.
HeaderSizes == 0 .. (LEVEL_4_SIZE + 1)

\* The bitmap before FindAndSet: as the format leaves it after Mark(0) and
\* Mark(1), and as the formatted disk holds it.
StartMaps == {{FreeMapSector, DirectorySector}, PersistentBitmap_FetchFrom(FormattedDisk)}

InitHeader ==
    /\ stub = FALSE
    /\ InitSystem
    /\ \E m \in StartMaps : hdrSector = FindFree(m) /\ freeMap = Mark(m, FindFree(m))
    /\ hdr = NoHeader
    /\ hdrState = "new"
    /\ built = NoHeader
    /\ dirTable = Directory_New

\* The bookkeeping of a call on the header object.
HeaderCall(op, size) ==
    /\ lastOp' = [op |-> op, path |-> <<>>, size |-> size, fd |-> -1]
    /\ UNCHANGED <<stub, cur, table, fdt, hostNames, hostFds, nops, preMap, openIds,
                   okSoFar, out, io, hdrSector, dirTable>>

\* hdr->Allocate(freeMap, fileSize) on a header that holds no blocks.
HeaderAllocate(sizes) ==
    /\ ~halted /\ hdrState = "new"
    /\ \/ Fault("Allocate")
       \/ \E fileSize \in sizes :
           \E r \in {FileHeader_Allocate(freeMap, fileSize)} :
            /\ hdr' = r.hdr
            /\ built' = r.hdr
            /\ freeMap' = r.bm
            /\ hdrState' = IF r.st = "ok" THEN "allocated" ELSE "new"
            /\ proc' = IF r.st = "assert" THEN "assert" ELSE "running"
            /\ ret' = BoolRet(r.st = "ok")
            /\ UNCHANGED disk
            /\ HeaderCall("Allocate", fileSize)

\* hdr->WriteBack(sector).
HeaderWriteBack ==
    /\ ~halted /\ hdrState = "allocated"
    /\ disk' = FileHeader_WriteBack(disk, hdr, hdrSector)
    /\ hdrState' = "written"
    /\ ret' = 0
    /\ UNCHANGED <<hdr, built, freeMap, proc>>
    /\ HeaderCall("WriteBack", 0)

\* new FileHeader; hdr->FetchFrom(sector): the object OpenFile builds.
HeaderFetchFrom ==
    /\ ~halted /\ hdrState = "written"
    /\ \/ Fault("FetchFrom")
       \/ \E r \in {FileHeader_FetchFrom(disk, hdrSector)} :
            /\ hdr' = r.hdr
            /\ hdrState' = "fetched"
            /\ proc' = IF r.ok THEN "running" ELSE "assert"
            /\ ret' = 0
            /\ UNCHANGED <<disk, built, freeMap>>
            /\ HeaderCall("FetchFrom", 0)

\* hdr->ByteToSector(offset) for an offset within the file.
HeaderByteToSector ==
    /\ ~halted /\ hdrState # "new" /\ lastOp.op # "ByteToSector"
    /\ \E offset \in 0 .. (hdr.numBytes - 1) :
        \E sector \in {FileHeader_ByteToSector(hdr, offset)} :
            /\ ret' = sector
            /\ proc' = IF sector = -1 THEN "assert" ELSE "running"
            /\ UNCHANGED <<disk, hdr, hdrState, built, freeMap>>
            /\ HeaderCall("ByteToSector", offset)

\* hdr->Deallocate(freeMap) on a header that holds blocks.  A slot of
\* table[] that Allocate or FetchFrom did not fill is unset: with a heap
\* that is not zero the loop follows it.
HeaderDeallocate ==
    /\ ~halted /\ hdrState \in {"allocated", "written", "fetched"}
    /\ \/ /\ hdr.numPointer < NUM_FILE_HEADER_POINTER
          /\ Fault("Deallocate")
       \/ \E r \in {FileHeader_Deallocate(freeMap, hdr)} :
            /\ freeMap' = r.bm
            /\ hdrState' = "deallocated"
            /\ proc' = Ended(r.st)
            /\ ret' = 0
            /\ UNCHANGED <<disk, hdr, built>>
            /\ HeaderCall("Deallocate", 0)

NextHeader ==
    \/ HeaderAllocate(HeaderSizes)
    \/ HeaderDeallocate
    \/ HeaderWriteBack
    \/ HeaderFetchFrom
    \/ HeaderByteToSector

SpecHeader == InitHeader /\ [][NextHeader]_vars

\* The header of the direct-pointer-only implementation: a file of at most
\* LEVEL_1_SIZE bytes, whose table[] holds DirectPointer objects.
DirectSizes == 0 .. LEVEL_1_SIZE

\* hdr->ByteToSector(offset) of that implementation, for an offset within
\* the file.
HeaderByteToSector_Direct ==
    /\ ~halted /\ hdrState # "new" /\ hdr.level = 1 /\ lastOp.op # "ByteToSector"
    /\ \E offset \in 0 .. (hdr.numBytes - 1) :
        \E r \in FileHeader_ByteToSector_Direct(hdr, offset) :
            /\ ret' = r.sector
            /\ proc' = Ended(r.st)
            /\ UNCHANGED <<disk, hdr, hdrState, built, freeMap>>
            /\ HeaderCall("ByteToSector", offset)

NextDirect ==
    \/ HeaderAllocate(DirectSizes)
    \/ HeaderWriteBack
    \/ HeaderFetchFrom
    \/ HeaderByteToSector_Direct

SpecDirect == InitHeader /\ [][NextDirect]_vars

\* ------------------------------------------------------------------------
\* One Directory object: new Directory(NumDirEntries), then Add, Remove and
\* RemoveRecursive.
\* ------------------------------------------------------------------------
\* Names of at most FileNameMaxLen characters, header sectors and types
\* given to Add and Remove.
DirNames == {1, 2, 3, 12}
DirSectors == {8, 9}
DirTypes == {FILE_TYPE, DIR_TYPE}

InitDirectory == stub = FALSE /\ InitSystem /\ NoObjects

\* The bookkeeping of a call on the directory object.
DirectoryCall(op, name, sector) ==
    /\ lastOp' = [op |-> op, path |-> <<name>>, size |-> 0, fd |-> sector]
    /\ UNCHANGED <<stub, disk, cur, table, fdt, hostNames, hostFds, proc, nops, preMap,
                   openIds, okSoFar, out, io, hdr, hdrSector, hdrState, built, freeMap>>

\* directory->Add(name, newSector, type).
DirectoryAdd ==
    \E name \in DirNames, newSector \in DirSectors, type \in DirTypes :
        \E r \in {Directory_Add(dirTable, name, newSector, type)} :
            /\ dirTable' = r.tbl
            /\ ret' = BoolRet(r.ok)
            /\ DirectoryCall("Add", name, newSector)

\* directory->Remove(name).
DirectoryRemove ==
    \E name \in DirNames :
        \E r \in {Directory_Remove(dirTable, name)} :
            /\ dirTable' = r.tbl
            /\ ret' = BoolRet(r.ok)
            /\ DirectoryCall("Remove", name, -1)

\* directory->RemoveRecursive(): the table of the object is as before, the
\* disk is what the descent wrote.
DirectoryRemoveRecursive ==
    /\ ~halted
    /\ \E r \in {Directory_RemoveRecursive(disk, dirTable, NumSectors)} :
        /\ disk' = r.d
        /\ proc' = IF r.ok THEN "running" ELSE "assert"
        /\ ret' = BoolRet(r.ok)
        /\ lastOp' = [op |-> "RemoveRecursive", path |-> <<>>, size |-> 0, fd |-> -1]
        /\ UNCHANGED <<stub, cur, table, fdt, hostNames, hostFds, nops, preMap, openIds,
                       okSoFar, out, io, objects>>

NextDirectory == DirectoryAdd \/ DirectoryRemove \/ DirectoryRemoveRecursive

SpecDirectory == InitDirectory /\ [][NextDirectory]_vars

\* ------------------------------------------------------------------------
\* The sectors of the live files, as lists (a sector referenced twice is
\* listed twice).
\* ------------------------------------------------------------------------
RECURSIVE NodeSectors(_, _)
RECURSIVE ChildSectors(_, _, _, _)

\* The sector of each child and what the child refers to.
ChildSectors(childLevel, pointerSectors, children, i) ==
    IF i > Len(children) THEN <<>>
    ELSE <<pointerSectors[i]>> \o NodeSectors(childLevel, children[i])
             \o ChildSectors(childLevel, pointerSectors, children, i + 1)

\* What a pointer node refers to: a data sector (level 1), its data sectors
\* (level 2), its children (levels 3 and 4).
NodeSectors(level, node) ==
    CASE level = 1 -> <<node.dataSector>>
      [] level = 2 -> SubSeq(node.pointerSectors, 1,
                             min(node.numPointer, NUM_INDIRECT_POINTER))
      [] OTHER -> ChildSectors(level - 1, node.pointerSectors, node.table, 1)

\* The header at "sector": its own sector, pointer sectors and data sectors.
HeaderSectors(d, sector) ==
    LET Go(f) ==
            IF ~f.ok THEN <<sector>>
            ELSE <<sector>> \o ChildSectors(f.hdr.level, f.hdr.pointerSectors, f.hdr.table, 1)
    IN  Go(FileHeader_FetchFrom(d, sector))

\* A directory tree is no deeper than the disk has room for directories.
MaxDepth == NumSectors \div (1 + 2 * NumDirEntries)

RECURSIVE SectorsUnder(_, _, _)
RECURSIVE EntrySectors(_, _, _, _)

\* The sectors of the in-use entries tbl[i ..] and, for the entries of type
\* DIR, of everything below them.
EntrySectors(d, tbl, i, fuel) ==
    IF i > NumDirEntries THEN <<>>
    ELSE (IF ~InUse(tbl[i]) THEN <<>>
          ELSE HeaderSectors(d, tbl[i][3])
                   \o (IF tbl[i][2] = DIR_TYPE THEN SectorsUnder(d, tbl[i][3], fuel - 1)
                       ELSE <<>>))
             \o EntrySectors(d, tbl, i + 1, fuel)

\* The sectors of everything below the directory whose header is at "sector".
SectorsUnder(d, sector, fuel) ==
    LET Go(e) == IF ~e.ok THEN <<>> ELSE EntrySectors(d, e.tbl, 1, fuel)
    IN  IF fuel = 0 THEN <<>> ELSE Go(EnterDirectory(d, sector))

\* The bitmap file, the root directory and everything below the root.
LiveSectors(d) ==
    HeaderSectors(d, FreeMapSector) \o HeaderSectors(d, DirectorySector)
        \o SectorsUnder(d, DirectorySector, MaxDepth)

NoDuplicates(q) == \A i, j \in DOMAIN q : i # j => q[i] # q[j]

\* The directory entry a path names on disk d: [found, sector, type].
NoEntry == [found |-> FALSE, sector |-> -1, type |-> FILE_TYPE]

EntryOf(d, path) ==
    LET Found(c, i) ==
            IF i = -1 THEN NoEntry
            ELSE [found |-> TRUE, sector |-> c.tbl[i + 1][3], type |-> c.tbl[i + 1][2]]
        Go(c) ==
            IF c.st # "ok" \/ ~c.found \/ c.filename = 0 THEN NoEntry
            ELSE Found(c, Directory_FindIndex(c.tbl, c.filename))
    IN  Go(ChangeCurrentDirectoryByWholePath(d, path))

\* ------------------------------------------------------------------------
\* C1..C10
\* ------------------------------------------------------------------------

\* C1: after any sequence of successful Create (file or directory) and
\* Remove calls on a freshly formatted disk, the sectors marked in the
\* persisted bitmap are exactly the sectors of the live files: the bitmap
\* file, the root directory and every header, pointer and data sector
\* reachable from the root.
C1_BitmapIsLiveSectors ==
    (okSoFar /\ ~halted) => PersistedMap = SeqRange(LiveSectors(disk))

C3_CreateRemoveRestoresBitmap ==
    [][(/\ lastOp.op = "Create" /\ ret = 1 /\ ~halted
        /\ lastOp'.op = "Remove" /\ lastOp'.path = lastOp.path /\ ret' = 1 /\ ~halted')
       => PersistedMap' = preMap]_vars

\* C4: after a successful Remove(d) of a directory d, no header, pointer or
\* data sector that was reachable through d stays marked in the bitmap.
C4_RemoveDirFreesSubtree ==
    [][(/\ lastOp'.op = "Remove" /\ ret' = 1 /\ ~halted'
        /\ EntryOf(disk, lastOp'.path).found
        /\ EntryOf(disk, lastOp'.path).type = DIR_TYPE)
       => \A s \in SeqRange(HeaderSectors(disk, EntryOf(disk, lastOp'.path).sector))
                     \cup SeqRange(SectorsUnder(disk, EntryOf(disk, lastOp'.path).sector,
                                                MaxDepth)) :
              s \notin PersistedMap']_vars

\* The sectors a pointer of "level" marks below its own sector for
\* numSectors data sectors, and the sectors "left" children of childLevel
\* mark with their own, split as Allocate splits them.
RECURSIVE NodeCost(_, _)
RECURSIVE ChildrenCost(_, _, _)

ChildrenCost(childLevel, remainSector, left) ==
    IF left = 0 THEN 0
    ELSE 1 + NodeCost(childLevel, min(remainSector, SECTOR_NUM_IN_LEVEL[childLevel]))
           + ChildrenCost(childLevel,
                          remainSector - min(remainSector, SECTOR_NUM_IN_LEVEL[childLevel]),
                          left - 1)

NodeCost(level, numSectors) ==
    CASE level = 1 -> 1
      [] level = 2 -> numSectors
      [] OTHER -> ChildrenCost(level - 1, numSectors,
                               divRoundUp(numSectors, SECTOR_NUM_IN_LEVEL[level - 1]))

\* The sectors a file of fileSize bytes takes: its header sector and what
\* FileHeader::Allocate marks.
FileCost(fileSize) ==
    1 + ChildrenCost(LevelOf(fileSize), divRoundUp(fileSize, SectorSize),
                     divRoundUp(divRoundUp(fileSize, SectorSize),
                                SECTOR_NUM_IN_LEVEL[LevelOf(fileSize)]))

\* C5: a Create for which the free sectors do not suffice returns the
\* failure value, whatever the number of free sectors is; it does not stop
\* on a failed assertion.
C5_NoSpaceReturnsFailure ==
    [][(/\ lastOp'.op = "Create" /\ LevelOf(lastOp'.size) # 0
        /\ NumClear(PersistedMap) < FileCost(lastOp'.size))
       => (proc' # "assert" /\ (proc' = "running" => ret' = 0))]_vars

\* C6: when Create returns failure (name present, no sector for the header,
\* directory full, no space for the blocks), every sector of the disk, so
\* the persisted bitmap and the persisted parent directory, is as before
\* the call.
C6_FailedCreateChangesNothing ==
    [][(lastOp'.op = "Create" /\ proc' = "running" /\ ret' = 0) => disk' = disk]_vars

\* A Create of a new name in a directory with room failed for lack of
\* sectors for the blocks, after FindAndSet and Add.
C6_Witness ==
    /\ lastOp.op = "Create" /\ proc = "running" /\ ret = 0
    /\ lastOp.path = <<0, 2>> /\ lastOp.size > 0
    /\ ~EntryOf(disk, <<0, 2>>).found
    /\ \E i \in 1 .. NumDirEntries : ~InUse(ResetToRootDirectory(disk).tbl[i])
    /\ NumClear(PersistedMap) > 0

\* An intermediate component of the path names an entry of type FILE (the
\* paths of the model have at most one intermediate component).
IntermediateIsFile(d, path) ==
    /\ Len(path) > 0 /\ path[1] = Slash
    /\ Len(Strtok(path, 1, 0)) >= 2
    /\ EntryOf(d, <<Slash, Strtok(path, 1, 0)[1]>>).found
    /\ EntryOf(d, <<Slash, Strtok(path, 1, 0)[1]>>).type = FILE_TYPE

\* C7: Create and Remove of a path with an intermediate component that is a
\* regular file fail, and the file's blocks are not written as a directory
\* table.
C7_FileIsNoDirectory ==
    [][(/\ lastOp'.op \in {"Create", "Mkdir", "Remove"} /\ proc' = "running"
        /\ IntermediateIsFile(disk, lastOp'.path))
       => (ret' = 0 /\ disk' = disk)]_vars

\* C8: once OpenAFile has returned the id of a file it opened, WriteFile,
\* ReadFile and CloseFile on that id are served by the handle (they do not
\* return the unknown-id value) until CloseFile(id), whatever came before
\* the open.
C8_OpenIdIsServed ==
    [][(/\ ~stub /\ proc' = "running" /\ lastOp'.fd \in openIds
        /\ lastOp'.op \in {"Read", "Write", "Close"})
       => ret' # (IF lastOp'.op = "Close" THEN 0 ELSE -1)]_vars

\* OpenAFile of the path fails on disk d: no leading '/', a missing
\* intermediate directory or a missing leaf.
OpenFails(d, path) ==
    \E c \in {ChangeCurrentDirectoryByWholePath(d, path)} :
        ~c.found \/ Directory_Find(c.tbl, c.filename) = -1

\* C9: OpenAFile returns -1 on every failure and then adds no entry to the
\* open-file table.
C9_FailedOpenReturnsMinusOne ==
    [][(/\ ~stub /\ lastOp'.op = "Open" /\ proc' = "running"
        /\ OpenFails(disk, lastOp'.path))
       => (ret' = -1 /\ table' = table)]_vars

\* C10: in both builds, ReadFile and WriteFile with an id that is not open
\* return -1 and CloseFile with such an id returns 0.
C10_UnknownIdFails ==
    [][(/\ proc' = "running" /\ lastOp'.fd \notin openIds
        /\ lastOp'.op \in {"Read", "Write", "Close"})
       => ret' = (IF lastOp'.op = "Close" THEN 0 ELSE -1)]_vars

\* ReadFile of the disk-backed build was called with an id that is not open
\* while another id is.
C10_Witness ==
    /\ ~stub /\ proc = "running" /\ lastOp.op = "Read" /\ ret = -1
    /\ openIds # {} /\ lastOp.fd \notin openIds

\* ------------------------------------------------------------------------
\* C11..C20
\* ------------------------------------------------------------------------

\* C11: after every public operation returns, whether it succeeded or
\* failed, the current directory is the root directory (header sector 1).
C11_CurrentDirectoryIsRoot ==
    (~halted /\ lastOp.op \in {"Create", "Remove", "Open"}) => cur = DirectorySector

\* C12: Remove returns TRUE only when the named entry existed and was
\* removed; without a leading '/', with a missing intermediate directory or
\* an absent leaf it returns FALSE.
C12_RemoveTrueOnlyIfRemoved ==
    [][(lastOp'.op = "Remove" /\ proc' = "running" /\ ret' = 1)
       => (EntryOf(disk, lastOp'.path).found /\ ~EntryOf(disk', lastOp'.path).found)]_vars

\* What one top-level pointer of a header of this level is given at most
\* (min(remainSector, SECTOR_NUM_IN_LEVEL[level - 1]) sectors), in bytes.
PointerShare(level) == SectorSize * SECTOR_NUM_IN_LEVEL[level]

\* What a header of each level holds at most.
LevelSizes == <<LEVEL_1_SIZE, LEVEL_2_SIZE, LEVEL_3_SIZE, LEVEL_4_SIZE>>

\* numPointer fits the header's pointer slots.
NumPointerFits == built.numPointer <= NUM_FILE_HEADER_POINTER

\* The pointers cover the file, and no lower level would.
LevelCovers ==
    /\ built.level \in 1 .. 4
    /\ built.numPointer * PointerShare(built.level) >= lastOp.size
    /\ \A k \in 1 .. (built.level - 1) : LevelSizes[k] < lastOp.size

\* Allocate was called with a size of at most LEVEL_4_SIZE.
AllocateCalled ==
    lastOp.op = "Allocate" /\ proc # "fault" /\ lastOp.size <= LEVEL_4_SIZE

\* C13: for every size s <= LEVEL_4_SIZE given to FileHeader::Allocate, the
\* header has numPointer <= NUM_FILE_HEADER_POINTER, numPointer times the
\* capacity of one top-level pointer is at least s, and the level is the
\* smallest one that covers s.
C13_AllocateShape == AllocateCalled => (NumPointerFits /\ LevelCovers)

\* C14: for every size Allocate succeeds for and every offset o within the
\* file, ByteToSector(o) on the header rebuilt by WriteBack and FetchFrom
\* equals ByteToSector(o) on the header before the write-back.
C14_RoundTripKeepsByteToSector ==
    (hdrState = "fetched" /\ lastOp.op = "ByteToSector")
        => ret = FileHeader_ByteToSector(built, lastOp.size)

\* A level-3 header was written and fetched, and an offset beyond its first
\* pointer was translated.
C14_Witness ==
    /\ hdrState = "fetched" /\ lastOp.op = "ByteToSector" /\ proc = "running"
    /\ built.level = 3 /\ built.numPointer = 2
    /\ lastOp.size >= PointerShare(3)
    /\ ret = FileHeader_ByteToSector(built, lastOp.size)
    /\ ret \in freeMap

\* C15: for every size s, the level FileHeader::Allocate chooses for s is
\* the level FileHeader::FetchFrom re-derives from a stored numBytes = s.
C15_SameLevel ==
    /\ (lastOp.op = "Allocate" /\ proc # "fault")
           => built.level = FetchFrom_Level(lastOp.size)
    /\ (hdrState = "fetched" /\ proc = "running")
           => (hdr.numBytes = built.numBytes /\ hdr.level = built.level)

\* A header of the first size of level 2 was allocated, written and fetched.
C15_Witness ==
    /\ hdrState = "fetched" /\ proc = "running" /\ lastOp.op = "FetchFrom"
    /\ built.numBytes = LEVEL_1_SIZE + 1
    /\ built.level = 2 /\ hdr.level = 2

\* The entries of a table that are in use, and whether a name is among them.
UsedEntries(tbl) == {i \in 1 .. NumDirEntries : InUse(tbl[i])}
NameInUse(tbl, name) == \E i \in UsedEntries(tbl) : tbl[i][4] = name
DirectoryFull(tbl) == UsedEntries(tbl) = 1 .. NumDirEntries

\* C16: after any sequence of Directory::Add and Directory::Remove no two
\* entries in use have the same name, and Add of a name that is in use
\* returns FALSE and changes no entry.
C16_NamesUnique ==
    [][/\ \A i, j \in UsedEntries(dirTable') :
              dirTable'[i][4] = dirTable'[j][4] => i = j
       /\ (lastOp'.op = "Add" /\ NameInUse(dirTable, lastOp'.path[1]))
              => (ret' = 0 /\ dirTable' = dirTable)]_vars

\* Add of a name in use was refused while an entry was free.
C16_Witness ==
    /\ lastOp.op = "Add" /\ ret = 0
    /\ NameInUse(dirTable, lastOp.path[1])
    /\ ~DirectoryFull(dirTable)

\* C17: a directory holds at most NumDirEntries entries: into a directory
\* that is not full, Add of a name not in use succeeds and takes one entry
\* (so NumDirEntries Adds of distinct names into an empty directory all
\* succeed); Add into a full directory returns FALSE and leaves the table
\* unchanged.
C17_CapacityIsNumDirEntries ==
    [][lastOp'.op = "Add"
          => IF DirectoryFull(dirTable) THEN ret' = 0 /\ dirTable' = dirTable
             ELSE ~NameInUse(dirTable, lastOp'.path[1])
                     => /\ ret' = 1
                        /\ Cardinality(UsedEntries(dirTable')) =
                               Cardinality(UsedEntries(dirTable)) + 1
                        /\ NameInUse(dirTable', lastOp'.path[1])]_vars

\* Add of a new name into a full directory was refused.
C17_Witness ==
    /\ lastOp.op = "Add" /\ ret = 0
    /\ DirectoryFull(dirTable)
    /\ ~NameInUse(dirTable, lastOp.path[1])

\* The lines the claim expects of a recursive listing: every entry in use,
\* in table order, with two spaces per level of depth, and below the line
\* of a directory the lines of its entries.
RECURSIVE ExpectedLines(_, _, _, _, _)
ExpectedLines(d, tbl, i, depth, fuel) ==
    LET Below(e) == IF e.ok THEN ExpectedLines(d, e.tbl, 1, depth + 1, fuel - 1) ELSE <<>>
    IN  IF i > NumDirEntries \/ fuel = 0 THEN <<>>
        ELSE (IF ~InUse(tbl[i]) THEN <<>>
              ELSE IF tbl[i][2] = DIR_TYPE
              THEN <<Line(2 * depth, i - 1, tbl[i][4], "D")>>
                       \o Below(EnterDirectory(d, tbl[i][3]))
              ELSE <<Line(2 * depth, i - 1, tbl[i][4], "F")>>)
             \o ExpectedLines(d, tbl, i + 1, depth, fuel)

\* The tree /1/2/3 of the claim's example: directories /1 and /1/2, file
\* /1/2/3.
ExampleTree(d) ==
    /\ EntryOf(d, <<0, 1>>).found /\ EntryOf(d, <<0, 1>>).type = DIR_TYPE
    /\ EntryOf(d, <<0, 1, 0, 2>>).found /\ EntryOf(d, <<0, 1, 0, 2>>).type = DIR_TYPE
    /\ EntryOf(d, <<0, 1, 0, 2, 0, 3>>).found
    /\ EntryOf(d, <<0, 1, 0, 2, 0, 3>>).type = FILE_TYPE
    /\ ~EntryOf(d, <<0, 3>>).found

\* C18: ListRecursive of the root prints every entry in use at depth k below
\* it, file or directory, with exactly 2 * k spaces in front; for the tree
\* /1/2/3 the lines are "[0] 1 D", "  [0] 2 D", "    [0] 3 F".
C18_ListRecursiveIndents ==
    (lastOp.op = "ListRecursive" /\ lastOp.path = <<Slash>> /\ proc = "running")
        => /\ out = ExpectedLines(disk, ResetToRootDirectory(disk).tbl, 1, 0, MaxDepth)
           /\ ExampleTree(disk)
                  => out = <<Line(0, 0, 1, "D"), Line(2, 0, 2, "D"), Line(4, 0, 3, "F")>>

C20_FormatMarksSystemFiles ==
    lastOp.op = "Format"
        => /\ UsedEntries(ResetToRootDirectory(disk).tbl) = {}
           /\ PersistedMap = {FreeMapSector, DirectorySector}
                                \cup SeqRange(HeaderSectors(disk, FreeMapSector))
                                \cup SeqRange(HeaderSectors(disk, DirectorySector))

\* The formatted disk: both system files hold a pointer sector for each of
\* their data sectors, all of them marked.
C20_Witness ==
    /\ lastOp.op = "Format" /\ nops = 0
    /\ ResetToRootDirectory(disk).ok
    /\ Len(HeaderSectors(disk, FreeMapSector)) = 1 + 2 * divRoundUp(FreeMapFileSize, SectorSize)
    /\ Len(HeaderSectors(disk, DirectorySector)) =
           1 + 2 * divRoundUp(DirectoryFileSize, SectorSize)
    /\ Cardinality(PersistedMap) =
           Len(HeaderSectors(disk, FreeMapSector)) + Len(HeaderSectors(disk, DirectorySector))

\* ------------------------------------------------------------------------
\* C21..C30
\* ------------------------------------------------------------------------

\* The id has no live handle: no key of the open-file table holds a
\* non-null pointer for it (disk-backed build), no OpenFile of the stub's
\* table has it as its descriptor.
NotInTable(id) ==
    IF stub THEN Stub_Search(fdt, id) = -1
    ELSE id \notin DOMAIN table \/ ~table[id].open

\* C30: after CloseFile(id) has returned 1 the id is not in the open-file
\* table, ReadFile and WriteFile on it return -1 and CloseFile on it returns
\* 0, until an Open returns that id again (both builds).
C30_ClosedIdIsGone ==
    [][(proc' = "running")
       => /\ \A id \in closedIds' : NotInTable(id)'
          /\ (lastOp'.fd \in closedIds /\ lastOp'.op \in {"Read", "Write", "Close"})
             => ret' = (IF lastOp'.op = "Close" THEN 0 ELSE -1)]_vars

\* An id was closed and CloseFile was then called on it again.
C30_Witness ==
    /\ proc = "running" /\ lastOp.op = "Close" /\ ret = 0
    /\ lastOp.fd \in closedIds


\* The path "/": its leaf name is empty.
RootPath == <<Slash>>

\* The root directory's table as the disk holds it.
RootTable(d) == ResetToRootDirectory(d).tbl

\* C24: Remove("/") returns FALSE and leaves the persisted bitmap and the
\* root directory as they were.
C24_RemoveRootRejected ==
    [][(lastOp'.op = "Remove" /\ lastOp'.path = RootPath /\ proc' = "running")
       => (/\ ret' = 0
           /\ PersistentBitmap_FetchFrom(disk') = PersistentBitmap_FetchFrom(disk)
           /\ RootTable(disk') = RootTable(disk))]_vars

\* Remove("/") was called while the root directory held an entry with the
\* empty name (made by Create("/")) and another entry.
C24_Witness ==
    /\ lastOp.op = "Remove" /\ lastOp.path = RootPath /\ proc = "running" /\ ret = 0
    /\ Directory_FindIndex(RootTable(disk), 0) # -1
    /\ Cardinality({i \in 1 .. NumDirEntries : InUse(RootTable(disk)[i])}) = 2


\* The sectors the pointer tree of a header in memory owns: the sector of
\* every pointer node and every data sector.
TreeSectors(h) == SeqRange(ChildSectors(h.level, h.pointerSectors, h.table, 1))

\* C25: FileHeader::Deallocate clears in the bitmap every sector the pointer
\* tree owns, the pointer sectors of nodes of every variant as well as the
\* data sectors, and leaves the header's own sector marked.
C25_DeallocateClearsSubtree ==
    [][(lastOp'.op = "Deallocate" /\ proc' = "running")
       => (TreeSectors(hdr) \cap freeMap' = {} /\ hdrSector \in freeMap')]_vars


\* The number of sectors a pointer node of the level takes for numSectors
\* data sectors: the data sector of a DirectPointer, the data sectors of a
\* SingleIndirectPointer, and for the levels above one sector per child
\* plus what each child takes.
RECURSIVE NodeRequires(_, _)
RECURSIVE ChildrenRequire(_, _)
ChildrenRequire(childLevel, remainSector) ==
    IF remainSector <= 0 THEN 0
    ELSE 1 + NodeRequires(childLevel, min(remainSector, SECTOR_NUM_IN_LEVEL[childLevel]))
           + ChildrenRequire(childLevel, remainSector - SECTOR_NUM_IN_LEVEL[childLevel])

NodeRequires(level, numSectors) ==
    CASE level = 1 -> 1
      [] level = 2 -> numSectors
      [] OTHER -> ChildrenRequire(level - 1, numSectors)

\* What FileHeader::Allocate(freeMap, fileSize) has to take from the bitmap:
\* the sectors of its pointers and everything below them.
HeaderRequires(fileSize) ==
    IF LevelOf(fileSize) = 0 THEN 0
    ELSE ChildrenRequire(LevelOf(fileSize), divRoundUp(fileSize, SectorSize))

\* C26: FileHeader::Allocate marks a sector only when the bitmap has as many
\* free sectors as the whole pointer tree requires (pointer sectors plus data
\* sectors); with fewer free sectors the call marks nothing.
C26_AllocateChecksWholeSubtree ==
    [][(lastOp'.op = "Allocate" /\ proc' # "fault"
        /\ NumClear(freeMap) < HeaderRequires(lastOp'.size))
       => freeMap' = freeMap]_vars


\* The places of an object in a list of write-backs.
Place(w, object) == {i \in DOMAIN w : w[i] = object}
WrittenOnce(w, object) == Cardinality(Place(w, object)) = 1
WrittenBefore(w, a, b) == \A i \in Place(w, a), j \in Place(w, b) : i < j

\* C27: a call of Create, CreateDirectory or Remove writes back the bitmap
\* if and only if it writes back the parent directory; a successful Create
\* writes the new header, then the parent directory, then the bitmap, each
\* once; a Remove that changes the persisted bitmap writes the bitmap, then
\* the parent directory, each once.
C27_BothPersistedInOrder ==
    [][(lastOp'.op \in {"Create", "Mkdir", "Remove"} /\ proc' = "running")
       => /\ (Place(writes', "freeMap") = {}) <=> (Place(writes', "currentDirectory") = {})
          /\ (lastOp'.op \in {"Create", "Mkdir"} /\ ret' = 1)
             => /\ WrittenOnce(writes', "hdr")
                /\ WrittenOnce(writes', "currentDirectory")
                /\ WrittenOnce(writes', "freeMap")
                /\ WrittenBefore(writes', "hdr", "currentDirectory")
                /\ WrittenBefore(writes', "currentDirectory", "freeMap")
          /\ (lastOp'.op = "Remove"
              /\ PersistentBitmap_FetchFrom(disk') # PersistentBitmap_FetchFrom(disk))
             => /\ WrittenOnce(writes', "freeMap")
                /\ WrittenOnce(writes', "currentDirectory")
                /\ WrittenBefore(writes', "freeMap", "currentDirectory")
          /\ (lastOp'.op = "Remove" /\ writes' = <<>>)
             => PersistentBitmap_FetchFrom(disk') = PersistentBitmap_FetchFrom(disk)]_vars

\* A directory was removed: its table, the bitmap and the parent directory
\* were written, in this order.
C27_Witness ==
    /\ lastOp.op = "Remove" /\ proc = "running" /\ ret = 1
    /\ writes = <<"removeDir", "freeMap", "currentDirectory">>
    /\ PersistentBitmap_FetchFrom(disk) # preMap


\* The in-use entries of type DIR of a table refer to directories whose
\* table on disk d has no in-use entry.
SubdirectoriesEmpty(d, tbl) ==
    \A i \in 1 .. NumDirEntries :
        (InUse(tbl[i]) /\ tbl[i][2] = DIR_TYPE)
        => \A j \in 1 .. NumDirEntries : ~InUse(EnterDirectory(d, tbl[i][3]).tbl[j])

\* C29: when Directory::RemoveRecursive has returned, the directory object
\* it was called on has no in-use entry and the directories below it have
\* no in-use entry.
C29_RemoveRecursiveEmpties ==
    [][(lastOp'.op = "RemoveRecursive" /\ proc' = "running")
       => /\ \A i \in 1 .. NumDirEntries : ~InUse(dirTable'[i])
          /\ SubdirectoriesEmpty(disk', dirTable)]_vars


\* The path names a directory of disk d whose table has no in-use entry.
EmptyDirectoryAt(d, path) ==
    \E e \in {EntryOf(d, path)} :
        /\ e.found /\ e.type = DIR_TYPE
        /\ \A j \in 1 .. NumDirEntries : ~InUse(EnterDirectory(d, e.sector).tbl[j])

\* C28: a directory CreateDirectory has made has no in-use entry on disk,
\* whatever its sectors held before, and listing it next prints nothing.
C28_NewDirectoryIsEmpty ==
    [][(proc' = "running")
       => /\ (lastOp'.op = "Mkdir" /\ ret' = 1) => EmptyDirectoryAt(disk', lastOp'.path)
          /\ (/\ lastOp'.op = "List" /\ lastOp.op = "Mkdir" /\ ret = 1
              /\ lastOp'.path = lastOp.path)
             => out' = <<>>]_vars

\* The first sector the formatted disk gives away.
FirstFreeSector == FindFree(PersistentBitmap_FetchFrom(FormattedDisk))

\* A directory was made on the sectors of a populated directory that had
\* been removed: the header is at the first sector again, and the sectors of
\* the file that was in the removed directory are marked and not live.
C28_Witness ==
    /\ lastOp.op = "Mkdir" /\ ret = 1 /\ proc = "running" /\ okSoFar
    /\ EntryOf(disk, lastOp.path).sector = FirstFreeSector
    /\ PersistedMap # SeqRange(LiveSectors(disk))


\* C21: every id a successful OpenAFile returns is greater than 0.
C21_OpenIdIsPositive ==
    [][(lastOp'.op = "Open" /\ proc' = "running" /\ ~OpenFails(disk, lastOp'.path))
       => ret' > 0]_vars


\* The length of the file whose header is at sector fd of disk d, and the
\* position of the handle the open-file table holds for fd (0 if none).
CreatedLength(d, fd) == FileHeader_FileLength(FileHeader_FetchFrom(d, fd).hdr)
Cursor(tab, fd) ==
    IF fd \in DOMAIN tab /\ tab[fd].open THEN tab[fd].file.seekPosition ELSE 0

\* C22: a 1-byte Write through the id OpenAFile returned for a file returns
\* 1 while fewer bytes than the file's created length have been transferred
\* through the id, and 0 from then on: n writes return 1, the next returns 0.
C22_OneByteWrites ==
    [][(/\ lastOp'.op = "Write" /\ lastOp'.size = 1 /\ proc' = "running"
        /\ lastOp'.fd \in openIds)
       => ret' = (IF Cursor(table, lastOp'.fd) < CreatedLength(disk, lastOp'.fd)
                  THEN 1 ELSE 0)]_vars


\* C23: bytes written at the start of a file through an open id are read
\* back unchanged after Close and a new Open: a Read that starts at position
\* 0 returns, byte for byte, what the last Write through the id put at
\* position 0.
C23_WriteReadRoundTrip ==
    [][(/\ lastOp'.op = "Read" /\ proc' = "running" /\ ret' > 0
        /\ lastOp'.fd \in openIds /\ Cursor(table, lastOp'.fd) = 0
        /\ lastWrite.fd = lastOp'.fd /\ lastWrite.position = 0
        /\ ret' <= Len(lastWrite.data))
       => readBuf' = SubSeq(lastWrite.data, 1, ret')]_vars

\* ------------------------------------------------------------------------
\* C31 .. C39
\* ------------------------------------------------------------------------

\* The path has an empty component before its last component: two '/' in a
\* row with a character somewhere behind them.
HasEmptyIntermediate(path) ==
    \E i \in 1 .. Len(path) - 1 :
        /\ path[i] = Slash /\ path[i + 1] = Slash
        /\ \E j \in i + 2 .. Len(path) : path[j] # Slash

\* Where a path resolution ends: whether it succeeded, the directory it
\* stands in and the leaf name.
Resolved(d, path) ==
    LET Go(c) == [found |-> c.st = "ok" /\ c.found, sector |-> c.file.sector,
                  filename |-> c.filename]
    IN  Go(ChangeCurrentDirectoryByWholePath(d, path))

\* C31: a Create or Mkdir whose path has an empty intermediate component
\* ("/1//2") fails, and on the disk any call leaves, a path with one '/'
\* behind a directory name ("/1/") resolves as the path without it ("/1").
C31_EmptyComponentRejected ==
    [][/\ (/\ lastOp'.op \in {"Create", "Mkdir"} /\ proc' = "running"
           /\ HasEmptyIntermediate(lastOp'.path))
          => ret' = 0
       /\ \A p \in {<<0, 1>>, <<0, 1, 2>>} :
            EntryOf(disk', p).type = DIR_TYPE
            => Resolved(disk', p \o <<Slash>>) = Resolved(disk', p)]_vars

\* An absolute path of at most PATH_DEPTH components, each of at most
\* FileNameMaxLen characters.
WithinLimits(path) ==
    LET pathArr == Strtok(path, 1, 0)
    IN  /\ Len(path) > 0 /\ path[1] = Slash
        /\ Len(pathArr) <= PATH_DEPTH
        /\ \A i \in 1 .. Len(pathArr) : strlen(pathArr[i]) <= FileNameMaxLen

\* C32: the path resolution of a call whose path is absolute and has at
\* most PATH_DEPTH components of at most FileNameMaxLen characters stores
\* no more in splitPath, currentParsePath, pathArr, currentPath and
\* filename than each of them holds.
C32_NoBufferOverrun ==
    [][(lastOp'.op \in {"Create", "Mkdir", "List"} /\ WithinLimits(lastOp'.path))
       => overrun' = {}]_vars

\* C33: in the direct-pointer-only implementation, ByteToSector(offset) for
\* an offset within the file returns the data sector of the pointer
\* floor(offset / SectorSize) of the header, a pointer below numPointer.
C33_DirectByteToSector ==
    [][(lastOp'.op = "ByteToSector")
       => LET pointerIndex == lastOp'.size \div SectorSize
          IN  /\ pointerIndex < hdr.numPointer
              /\ proc' = "running"
              /\ ret' = hdr.table[pointerIndex + 1].dataSector]_vars

\* The id has no open file in the table of the disk-backed build.
NotOpen(tab, fd) == fd \notin DOMAIN tab \/ ~tab[fd].open

\* C34: a ReadFile, WriteFile or CloseFile that fails on an id that is not
\* open leaves the keys of the open-file table as they were, and an
\* OpenAFile that returns an id leaves a handle for it in the table.
C34_FailedCallKeepsTable ==
    [][/\ (/\ ~stub /\ proc' = "running" /\ NotOpen(table, lastOp'.fd)
           /\ \/ lastOp'.op \in {"Read", "Write"} /\ ret' = -1
              \/ lastOp'.op = "Close" /\ ret' = 0)
          => DOMAIN table' = DOMAIN table
       /\ (~stub /\ proc' = "running" /\ lastOp'.op = "Open" /\ ret' \in openIds')
          => ~NotOpen(table', ret')]_vars

\* The handle the table holds for the id is the one an OpenFile built from
\* the disk as it is now would be, but for its cursor.
HandleIsCurrent(d, tab, id) == tab[id].file.hdr = FileHeader_FetchFrom(d, id).hdr

\* C35: every open file of the table is live: its id is the header sector
\* of a file a directory entry names, the sector is marked in the persisted
\* bitmap, and the handle holds the header that is at that sector now (not
\* the header of a removed file whose sector was given to a new file).
C35_OpenEntriesAreLive ==
    (~stub /\ proc = "running")
    => \A id \in DOMAIN table :
        table[id].open
        => /\ Test(PersistedMap, id)
           /\ \E p \in LivePaths : EntryOf(disk, p).found /\ EntryOf(disk, p).sector = id
           /\ HandleIsCurrent(disk, table, id)

\* C36: after an OpenAFile that returned the id of a file it opened, the
\* cursor of the handle the table holds for that id is at offset 0, also
\* when the file was open already and was read or written.
C36_OpenStartsAtZero ==
    [][(lastOp'.op = "Open" /\ proc' = "running" /\ ret' \in openIds')
       => Cursor(table', ret') = 0]_vars

\* The number of files fileDescriptorTable holds.
Registered(t) == Cardinality({i \in DOMAIN t : t[i] # NULL})

\* C37: in the stub, an OpenAFile of a file the host can open, made while
\* fewer than FS_OPENFILE_NUMS files are registered, returns a descriptor
\* and registers the file under it; so every slot of fileDescriptorTable can
\* come to hold a file.
C37_StubTableFillsUp ==
    [][(/\ stub /\ proc' = "running" /\ lastOp'.op = "Open"
        /\ lastOp'.path \in hostNames
        /\ Registered(fdt) < FS_OPENFILE_NUMS)
       => /\ ret' >= 0
          /\ Stub_Search(fdt', ret') # -1
          /\ Registered(fdt') = Registered(fdt) + 1]_vars

\* Some in-use entry of a directory under the directory at "sector" has the
\* empty name.
RECURSIVE HasEmptyName(_, _, _)
HasEmptyName(d, sector, fuel) ==
    LET Go(e) ==
            \E i \in 1 .. Len(e.tbl) :
                /\ InUse(e.tbl[i])
                /\ \/ e.tbl[i][4] = 0
                   \/ /\ e.tbl[i][2] = DIR_TYPE /\ fuel > 0
                      /\ HasEmptyName(d, e.tbl[i][3], fuel - 1)
    IN  Go(EnterDirectory(d, sector))

\* A path of '/' characters only.
OnlySlashes(path) == Len(path) > 0 /\ \A i \in 1 .. Len(path) : path[i] = Slash

\* C38: no directory of the disk holds an in-use entry with the empty name,
\* and a Create whose path is "/" or slashes only fails.
C38_NoEmptyName ==
    [][(proc' = "running")
       => /\ ~HasEmptyName(disk', DirectorySector, MaxDepth)
          /\ (lastOp'.op = "Create" /\ OnlySlashes(lastOp'.path)) => ret' = 0]_vars

\* Remove of "path" on the disk d reaches Deallocate with a header one of
\* whose sectors is not marked in the bitmap.
FreesUnmarked(d, path) ==
    LET Unmarked(c, h) ==
            /\ h.ok
            /\ FileHeader_Deallocate(PersistentBitmap_FetchFrom(c.d), h.hdr).st = "assert"
        Go(c) ==
            /\ c.st = "ok" /\ c.found /\ c.filename # 0
            /\ Directory_Find(c.tbl, c.filename) \in Sectors
            /\ Unmarked(c, FileHeader_FetchFrom(c.d, Directory_Find(c.tbl, c.filename)))
    IN  path # <<>> /\ Go(ChangeCurrentDirectoryByWholePath(d, path))

\* C39: after calls that all succeeded, no Remove of a path hands Deallocate
\* a sector that is not marked in the bitmap: no "ought to be marked" ASSERT
\* fails and no sector is freed twice.
C39_NoDoubleFree ==
    okSoFar => \A path \in FreeRemoved : ~FreesUnmarked(disk, path)

====
